---- MODULE Spec2Model ----
(***************************************************************************)
(* Medication Buddy: the file-backed MemoryBank (memory/memory_bank.py),   *)
(* the ConversationalAgent (agents/convo_agent.py: call_gemini,            *)
(* search_memory, summarize_events, respond_with_memory_first and the app  *)
(* features that append events), the free-chat branch of the CLI loop      *)
(* (agents/cli_chat.py) and medcheck (tools/medcheck_tool.py).             *)
(*                                                                         *)
(* A Python str is a tuple of one-character strings; "U+00E9" stands for   *)
(* the one non-ASCII letter of the alphabet.  A Python / JSON value is a   *)
(* record [t, v]: t is the type tag and v the payload; a dict is the tuple *)
(* of its [k, v] items in insertion order.                                 *)
(***************************************************************************)
EXTENDS Integers, Sequences, FiniteSets, TLC

VARIABLES store, file, apiKey, appends, last, other

vars == <<store, file, apiKey, appends, last, other>>

-----------------------------------------------------------------------------
(* Text *)

UpperChars == <<"A","B","C","D","E","F","G","H","I","J","K","L","M","N","O","P","Q","R","S","T","U","V","W","X","Y","Z">>

LowerChars == <<"a","b","c","d","e","f","g","h","i","j","k","l","m","n","o","p","q","r","s","t","u","v","w","x","y","z">>

DigitChars == <<"0","1","2","3","4","5","6","7","8","9">>

Range(s) == {s[i] : i \in 1..Len(s)}

UpperSet == Range(UpperChars)

LowerSet == Range(LowerChars)

\* the characters the regular expression \w matches in the alphabet of the texts
WordSet == UpperSet \cup LowerSet \cup Range(DigitChars) \cup {"_", "U+00E9"}

\* str.lower() and str.upper(), one character at a time
LowerChar(c) ==
    IF c \in UpperSet
    THEN LowerChars[CHOOSE i \in 1..Len(UpperChars) : UpperChars[i] = c]
    ELSE c

UpperChar(c) ==
    IF c \in LowerSet
    THEN UpperChars[CHOOSE i \in 1..Len(LowerChars) : LowerChars[i] = c]
    ELSE c

Lower(s) == ([i \in 1..Len(s) |-> LowerChar(s[i])] \o <<>>)

Upper(s) == ([i \in 1..Len(s) |-> UpperChar(s[i])] \o <<>>)

IsSpaceChar(c) == c \in {" ", "\n", "\t"}

\* t in s
Contains(s, t) ==
    \/ Len(t) = 0
    \/ \E i \in 1..(Len(s) - Len(t) + 1) : s[i] = t[1] /\ SubSeq(s, i, i + Len(t) - 1) = t

StartsWith(s, t) == Len(t) <= Len(s) /\ SubSeq(s, 1, Len(t)) = t

\* s[:n]
Take(s, n) == SubSeq(s, 1, IF n < Len(s) THEN n ELSE Len(s))

\* s[::-1] / reversed(s)
Reverse(s) == ([i \in 1..Len(s) |-> s[Len(s) + 1 - i]] \o <<>>)

\* s.strip()
Strip(s) ==
    LET keep == {i \in 1..Len(s) : ~IsSpaceChar(s[i])}
    IN  IF keep = {} THEN <<>>
        ELSE SubSeq(s, CHOOSE i \in keep : \A j \in keep : i <= j,
                       CHOOSE i \in keep : \A j \in keep : i >= j)

RECURSIVE Join(_, _)
\* sep.join(parts)
Join(parts, sep) ==
    IF Len(parts) = 0 THEN <<>>
    ELSE IF Len(parts) = 1 THEN parts[1]
    ELSE parts[1] \o sep \o Join(Tail(parts), sep)

RECURSIVE Digits(_)
\* the decimal digits of a natural number
Digits(n) == IF n < 10 THEN <<DigitChars[n + 1]>> ELSE Digits(n \div 10) \o <<DigitChars[(n % 10) + 1]>>

TwoDigits(n) == <<DigitChars[(n \div 10) + 1], DigitChars[(n % 10) + 1]>>

\* the last position of the run that starts at i: the characters c from i on with (c \in chars) = inside
RunEnd(s, chars, inside, i) ==
    CHOOSE e \in i..Len(s) :
        /\ \A k \in i..e : (s[k] \in chars) = inside
        /\ (e = Len(s) \/ (s[e + 1] \in chars) # inside)

RECURSIVE RunsFrom(_, _, _, _)
RECURSIVE EmitRun(_, _, _, _, _)
\* the maximal runs, left to right from position i, of characters c with (c \in chars) = inside
RunsFrom(s, chars, inside, i) ==
    IF i > Len(s) THEN <<>>
    ELSE EmitRun(s, chars, inside, i,
                 IF (s[i] \in chars) = inside THEN RunEnd(s, chars, inside, i) ELSE i - 1)

\* e is the end of the run that starts at i, or i - 1 when none starts there
EmitRun(s, chars, inside, i, e) ==
    (IF e >= i THEN <<SubSeq(s, i, e)>> ELSE <<>>)
        \o RunsFrom(s, chars, inside, (IF e >= i THEN e ELSE i) + 1)

Runs(s, chars, inside) == RunsFrom(s, chars, inside, 1)

\* re.findall(r"\w+", q): the maximal runs of word characters
FindAllWords(q) == Runs(q, WordSet, TRUE)

-----------------------------------------------------------------------------
(* Python and JSON values *)

PyNone == [t |-> "null", v |-> 0]

PyBool(b) == [t |-> "bool", v |-> b]

PyInt(n) == [t |-> "int", v |-> n]

\* a float n + 0.5: time.time() never returns a whole number of seconds here
PyFloat(n) == [t |-> "float", v |-> n]

PyStr(s) == [t |-> "str", v |-> s]

PyList(l) == [t |-> "list", v |-> l]

PyDict(items) == [t |-> "dict", v |-> items]

Item(key, val) == [k |-> key, v |-> val]

\* bool(x)
Truthy(x) ==
    CASE x.t = "null" -> FALSE
      [] x.t = "bool" -> x.v
      [] x.t \in {"int", "float"} -> ~(x.t = "int" /\ x.v = 0)
      [] OTHER -> Len(x.v) > 0

IsStr(x) == x.t = "str"

IsDict(x) == x.t = "dict"

\* key in d
HasKey(d, key) == \E i \in 1..Len(d.v) : d.v[i].k = key

\* d.get(key, default)
GetOr(d, key, default) ==
    IF HasKey(d, key) THEN d.v[CHOOSE i \in 1..Len(d.v) : d.v[i].k = key].v ELSE default

\* d.get(key)
Get(d, key) == GetOr(d, key, PyNone)

\* a or b
Or(a, b) == IF Truthy(a) THEN a ELSE b

\* d.setdefault(key, val) on a copy of d
SetDefault(d, key, val) == IF HasKey(d, key) THEN d ELSE PyDict(Append(d.v, Item(key, val)))

\* json.dumps escapes (ensure_ascii=True)
EscapeJsonChar(c) ==
    CASE c = "\"" -> <<"\\","\"">>
      [] c = "\\" -> <<"\\","\\">>
      [] c = "\n" -> <<"\\","n">>
      [] c = "\t" -> <<"\\","t">>
      [] c = "U+00E9" -> <<"\\","u","0","0","e","9">>
      [] OTHER -> <<c>>

\* the two halves of a text of two or more characters
Halves(s) == <<SubSeq(s, 1, Len(s) \div 2), SubSeq(s, (Len(s) \div 2) + 1, Len(s))>>

ConcatPair(p) == p[1] \o p[2]

RECURSIVE EscapeJson(_)
EscapeJson(s) ==
    IF Len(s) = 0 THEN <<>>
    ELSE IF Len(s) = 1 THEN EscapeJsonChar(s[1])
    ELSE ConcatPair(([h \in 1..2 |-> EscapeJson(Halves(s)[h])] \o <<>>))

\* a JSON string literal
JsonQuote(s) == <<"\"">> \o EscapeJson(s) \o <<"\"">>

\* the values inside a list or a dict, in order
Children(x) == ([i \in 1..Len(x.v) |-> IF x.t = "dict" THEN x.v[i].v ELSE x.v[i]] \o <<>>)

\* a list or dict written with its children's texts
DumpsContainer(x, texts) ==
    IF x.t = "list" THEN <<"[">> \o Join(texts, <<","," ">>) \o <<"]">>
    ELSE <<"{">> \o Join(([i \in 1..Len(x.v) |-> JsonQuote(x.v[i].k) \o <<":"," ">> \o texts[i]] \o <<>>), <<","," ">>) \o <<"}">>

RECURSIVE Dumps(_)
\* json.dumps(x) with the default separators
Dumps(x) ==
    CASE x.t = "null" -> <<"n","u","l","l">>
      [] x.t = "bool" -> IF x.v THEN <<"t","r","u","e">> ELSE <<"f","a","l","s","e">>
      [] x.t = "int" -> Digits(x.v)
      [] x.t = "float" -> Digits(x.v) \o <<".","5">>
      [] x.t = "str" -> JsonQuote(x.v)
      [] OTHER -> DumpsContainer(x, ([i \in 1..Len(x.v) |-> Dumps(Children(x)[i])] \o <<>>))

\* repr escapes of a str (no quote characters occur in the alphabet of the stored texts)
EscapeReprChar(c) ==
    CASE c = "\\" -> <<"\\","\\">>
      [] c = "\n" -> <<"\\","n">>
      [] c = "\t" -> <<"\\","t">>
      [] c = "'" -> <<"\\","'">>
      [] OTHER -> <<c>>

RECURSIVE EscapeRepr(_)
EscapeRepr(s) ==
    IF Len(s) = 0 THEN <<>>
    ELSE IF Len(s) = 1 THEN EscapeReprChar(s[1])
    ELSE ConcatPair(([h \in 1..2 |-> EscapeRepr(Halves(s)[h])] \o <<>>))

\* the repr of a str
ReprQuote(s) == <<"'">> \o EscapeRepr(s) \o <<"'">>

ReprContainer(x, texts) ==
    IF x.t = "list" THEN <<"[">> \o Join(texts, <<","," ">>) \o <<"]">>
    ELSE <<"{">> \o Join(([i \in 1..Len(x.v) |-> ReprQuote(x.v[i].k) \o <<":"," ">> \o texts[i]] \o <<>>), <<","," ">>) \o <<"}">>

RECURSIVE Repr(_)
\* repr(x); str(x) of a dict or list is its repr
Repr(x) ==
    CASE x.t = "null" -> <<"N","o","n","e">>
      [] x.t = "bool" -> IF x.v THEN <<"T","r","u","e">> ELSE <<"F","a","l","s","e">>
      [] x.t = "int" -> Digits(x.v)
      [] x.t = "float" -> Digits(x.v) \o <<".","5">>
      [] x.t = "str" -> ReprQuote(x.v)
      [] OTHER -> ReprContainer(x, ([i \in 1..Len(x.v) |-> Repr(Children(x)[i])] \o <<>>))

\* str(x)
Str(x) == IF x.t = "str" THEN x.v ELSE Repr(x)

-----------------------------------------------------------------------------
(* memory/memory_bank.py *)

\* user identifiers: UID is the CLI's user
UID == <<"c","l","i","-","u","s","e","r">>

U1 == <<"u","1">>

Users == {UID, U1}

UserOrder == <<UID, U1>>

\* readings of time.time()
Times == {100}

EmptyStore == [u \in {} |-> <<>>]

CorruptFile == [t |-> "corrupt", v |-> <<>>]

\* json.dump(self.store, f): the document holds one item per user, its value the list of events
JsonDumpStore(st) ==
    LET present == SelectSeq(UserOrder, LAMBDA u : u \in DOMAIN st)
    IN  PyDict(([i \in 1..Len(present) |-> Item(present[i], PyList(st[present[i]]))] \o <<>>))

\* json.load(f) of a document written by JsonDumpStore
JsonLoadStore(doc) ==
    [u \in {doc.v[i].k : i \in 1..Len(doc.v)} |-> Get(doc, u).v]

\* MemoryBank._save
_save(st) == JsonDumpStore(st)

\* MemoryBank._load: any parse failure gives the empty store
_load(f) == IF f.t = "dict" THEN JsonLoadStore(f) ELSE EmptyStore

\* a faulty stamp: event["recorded_at"] = time.time() overwrites what the caller supplied
StampEventOverwriting(event, now) ==
    PyDict(SelectSeq(event.v, LAMBDA it : it.k # <<"r","e","c","o","r","d","e","d","_","a","t">>) \o <<Item(<<"r","e","c","o","r","d","e","d","_","a","t">>, PyFloat(now))>>)

\* event = dict(event); event.setdefault("recorded_at", time.time())
StampEvent(event, now) == SetDefault(event, <<"r","e","c","o","r","d","e","d","_","a","t">>, PyFloat(now))

\* a faulty append: self.store[user_id] = [event] drops the events stored before
ListAppendReplacing(st, user_id, event) ==
    [u \in DOMAIN st \cup {user_id} |-> IF u = user_id THEN <<event>> ELSE st[u]]

\* self.store.setdefault(user_id, []); self.store[user_id].append(event)
ListAppend(st, user_id, event) ==
    [u \in DOMAIN st \cup {user_id} |->
        IF u = user_id
        THEN Append(IF user_id \in DOMAIN st THEN st[user_id] ELSE <<>>, event)
        ELSE st[u]]

\* MemoryBank.append_user_event: the store after the call
append_user_event(st, user_id, event, now) == ListAppend(st, user_id, StampEvent(event, now))

\* a faulty read: self.store.get(user_id) without the default
get_user_memory_without_default(st, user_id) == IF user_id \in DOMAIN st THEN PyList(st[user_id]) ELSE PyNone

\* MemoryBank.get_user_memory
get_user_memory(st, user_id) == IF user_id \in DOMAIN st THEN PyList(st[user_id]) ELSE PyList(<<>>)

\* MemoryBank.clear_user_memory: del self.store[user_id]
DelUser(st, user_id) == [u \in DOMAIN st \ {user_id} |-> st[u]]

-----------------------------------------------------------------------------
(* agents/convo_agent.py: call_gemini *)

\* prompt[:200]
PromptEchoLen == 200

SimulatedPrefix == <<"S","I","M","U","L","A","T","E","D"," ","M","O","D","E","L"," ","R","E","S","P","O","N","S","E",":"," ">>

RequestErrorText == <<"S","I","M","U","L","A","T","E","D"," ","M","O","D","E","L"," ","R","E","S","P","O","N","S","E"," ","(","r","e","q","u","e","s","t"," ","e","r","r","o","r",")",".">>

ApiErrorText == <<"S","I","M","U","L","A","T","E","D"," ","M","O","D","E","L"," ","R","E","S","P","O","N","S","E"," ","(","A","P","I"," ","e","r","r","o","r",")","."," ","S","e","e"," ","l","o","g","s",".">>

UnparseableText == <<"S","I","M","U","L","A","T","E","D"," ","M","O","D","E","L"," ","R","E","S","P","O","N","S","E"," ","(","u","n","p","a","r","s","e","a","b","l","e",")","."," ","S","e","e"," ","l","o","g","s",".">>

ModelTruncatedText == <<"M","O","D","E","L","_","T","R","U","N","C","A","T","E","D",":"," ","I","n","c","r","e","a","s","e"," ","m","a","x","_","o","u","t","p","u","t","_","t","o","k","e","n","s","."," ","P","a","r","t","i","a","l"," ","c","a","n","d","i","d","a","t","e"," ","l","o","g","g","e","d",".">>

TruncationNote == <<"\n","\n","-","-","-","\n","(","N","o","t","e",":"," ","m","o","d","e","l"," ","t","r","u","n","c","a","t","e","d"," ","b","y"," ","M","A","X","_","T","O","K","E","N","S",";"," ","c","o","n","s","i","d","e","r"," ","r","a","i","s","i","n","g"," ","m","a","x","_","o","u","t","p","u","t","_","t","o","k","e","n","s",")">>

HttpOk == 200

\* an exception travelling up to the enclosing try; the helpers below pass one on
Raised == [t |-> "exc", v |-> 0]

IsRaised(x) == x.t = "exc"

\* x.get(key): AttributeError unless x is a dict
AttrGet(x, key) == IF IsRaised(x) THEN Raised ELSE IF IsDict(x) THEN Get(x, key) ELSE Raised

\* x or default
OrDefault(x, default) == IF IsRaised(x) THEN Raised ELSE Or(x, default)

\* x[0] of a truthy x: the first element of a list, the first character of a str,
\* KeyError on a dict (its keys are strings), TypeError on a number or a bool
Index0(x) ==
    CASE x.t = "list" -> x.v[1]
      [] x.t = "str" -> PyStr(<<x.v[1]>>)
      [] OTHER -> Raised

\* the values "for m in x" visits, or Raised when x is not iterable
Iter(x) ==
    CASE x.t = "list" -> x
      [] x.t = "str" -> PyList(([i \in 1..Len(x.v) |-> PyStr(<<x.v[i]>>)] \o <<>>))
      [] x.t = "dict" -> PyList(([i \in 1..Len(x.v) |-> PyStr(x.v[i].k)] \o <<>>))
      [] OTHER -> Raised

\* c["text"] of every selected item
TextValues(hit) == PyList(([i \in 1..Len(hit) |-> Get(hit[i], <<"t","e","x","t">>)] \o <<>>))

\* lines 127-129: the text values the inner loop appends for the items cs of one message
ContentTexts(cs) ==
    IF IsRaised(cs) THEN Raised
    ELSE TextValues(SelectSeq(cs.v, LAMBDA c : IsDict(c) /\ HasKey(c, <<"t","e","x","t">>)))

\* for c in (m.get("content") or [])
MessageTexts(m) == ContentTexts(Iter(OrDefault(AttrGet(m, <<"c","o","n","t","e","n","t">>), PyList(<<>>))))

\* the texts of a message followed by those of the later messages
ConcatTexts(head, rest) ==
    IF IsRaised(head) \/ IsRaised(rest) THEN Raised ELSE PyList(head.v \o rest.v)

RECURSIVE AllTexts(_)
\* lines 126-129: texts after the loop over the messages ms, Raised if an iteration raises
AllTexts(ms) ==
    IF Len(ms) = 0 THEN PyList(<<>>) ELSE ConcatTexts(MessageTexts(Head(ms)), AllTexts(Tail(ms)))

\* lines 130-131: "\n".join(texts) raises TypeError unless every text is a str
JoinTexts(texts) ==
    IF IsRaised(texts) THEN PyNone
    ELSE IF Len(texts.v) = 0 THEN PyNone
    ELSE IF \E i \in 1..Len(texts.v) : ~IsStr(texts.v[i]) THEN PyNone
    ELSE PyStr(Join(([i \in 1..Len(texts.v) |-> texts.v[i].v] \o <<>>), <<"\n">>))

\* lines 124-131 for the value ms the loop iterates over
MessagesText(ms) == IF IsRaised(ms) THEN PyNone ELSE JoinTexts(AllTexts(ms.v))

\* extract_text, lines 122-134: what follows the candidates block
ExtractTopLevel(d) ==
    IF HasKey(d, <<"o","u","t","p","u","t","_","t","e","x","t">>) /\ IsStr(Get(d, <<"o","u","t","p","u","t","_","t","e","x","t">>)) THEN Get(d, <<"o","u","t","p","u","t","_","t","e","x","t">>)
    ELSE IF HasKey(d, <<"m","e","s","s","a","g","e","s">>) THEN MessagesText(Iter(Get(d, <<"m","e","s","s","a","g","e","s">>)))
    ELSE PyNone

\* extract_text, lines 115-121: first is parts[0], or None when parts is empty
FromFirstPart(d, c0, first) ==
    IF IsRaised(first) THEN PyNone
    ELSE IF IsDict(first) /\ HasKey(first, <<"t","e","x","t">>) THEN Get(first, <<"t","e","x","t">>)
    ELSE IF IsStr(first) THEN first
    ELSE IF IsStr(Get(c0, <<"o","u","t","p","u","t">>)) THEN Get(c0, <<"o","u","t","p","u","t">>)
    ELSE ExtractTopLevel(d)

\* extract_text, lines 113-114
FromParts(d, c0, parts) ==
    IF IsRaised(parts) THEN PyNone
    ELSE FromFirstPart(d, c0, IF Truthy(parts) THEN Index0(parts) ELSE PyNone)

\* extract_text, lines 111-113: content = c0.get("content") or {}; parts = content.get("parts") or []
FromCandidate(d, c0) ==
    FromParts(d, c0, OrDefault(AttrGet(OrDefault(AttrGet(c0, <<"c","o","n","t","e","n","t">>), PyDict(<<>>)), <<"p","a","r","t","s">>), PyList(<<>>)))

\* extract_text, lines 109-111
FromCandidates(d, candidates) ==
    IF IsRaised(candidates) THEN PyNone
    ELSE IF ~Truthy(candidates) THEN ExtractTopLevel(d)
    ELSE FromCandidate(d, Index0(candidates))

\* call_gemini.extract_text: the value returned (None when an exception is swallowed)
extract_text(d) == FromCandidates(d, OrDefault(AttrGet(d, <<"c","a","n","d","i","d","a","t","e","s">>), PyList(<<>>)))

\* line 141: cand0 and isinstance(cand0, dict) and cand0.get("finishReason") == "MAX_TOKENS"
IsMaxTokens(cand0) ==
    /\ ~IsRaised(cand0)
    /\ Truthy(cand0)
    /\ IsDict(cand0)
    /\ IsStr(Get(cand0, <<"f","i","n","i","s","h","R","e","a","s","o","n">>))
    /\ Get(cand0, <<"f","i","n","i","s","h","R","e","a","s","o","n">>).v = <<"M","A","X","_","T","O","K","E","N","S">>

\* lines 140-141: cand0 = (body_json.get("candidates") or [None])[0] declares MAX_TOKENS
DeclaresMaxTokens(body_json) ==
    IsMaxTokens(Index0(OrDefault(AttrGet(body_json, <<"c","a","n","d","i","d","a","t","e","s">>), PyList(<<PyNone>>))))

\* lines 141-156 for the extracted out
ReturnFor(truncated, out) ==
    IF truncated /\ Truthy(out) /\ IsStr(out) THEN PyStr(out.v \o TruncationNote)
    \* out + "..." raises TypeError for a truthy out that is no str: swallowed by the except
    ELSE IF truncated /\ ~Truthy(out) THEN PyStr(ModelTruncatedText)
    ELSE IF Truthy(out) THEN out
    ELSE PyStr(UnparseableText)

\* lines 136-156: the value returned for a 200 response with a truthy parsed body
NormalizeBody(body_json) == ReturnFor(DeclaresMaxTokens(body_json), extract_text(body_json))

\* lines 80-104: True when the response is reported as an API error
IsApiError(net) == net.status # HttpOk \/ ~net.parses \/ ~Truthy(net.body)

\* a faulty echo: the simulated reply holds the whole prompt
call_gemini_echoing_all(key, prompt, net) ==
    IF ~key THEN [ret |-> PyStr(SimulatedPrefix \o prompt \o <<".",".",".">>), requests |-> 0]
    ELSE IF net.fails THEN [ret |-> PyStr(RequestErrorText), requests |-> 1]
    ELSE IF IsApiError(net) THEN [ret |-> PyStr(ApiErrorText), requests |-> 1]
    ELSE [ret |-> NormalizeBody(net.body), requests |-> 1]

\* a faulty gateway: a failed request is sent a second time before the call gives up
call_gemini_retrying(key, prompt, net) ==
    IF ~key THEN [ret |-> PyStr(SimulatedPrefix \o Take(prompt, PromptEchoLen) \o <<".",".",".">>), requests |-> 0]
    ELSE IF net.fails THEN [ret |-> PyStr(RequestErrorText), requests |-> 2]
    ELSE IF IsApiError(net) THEN [ret |-> PyStr(ApiErrorText), requests |-> 1]
    ELSE [ret |-> NormalizeBody(net.body), requests |-> 1]

\* ConversationalAgent.call_gemini: the value returned and the requests issued.
\* key: a credential is configured; net: what the network does with the one request
call_gemini(key, prompt, net) ==
    IF ~key THEN [ret |-> PyStr(SimulatedPrefix \o Take(prompt, PromptEchoLen) \o <<".",".",".">>), requests |-> 0]
    ELSE IF net.fails THEN [ret |-> PyStr(RequestErrorText), requests |-> 1]
    ELSE IF IsApiError(net) THEN [ret |-> PyStr(ApiErrorText), requests |-> 1]
    ELSE [ret |-> NormalizeBody(net.body), requests |-> 1]

-----------------------------------------------------------------------------
(* agents/convo_agent.py: search_memory, summarize_events, respond_with_memory_first *)

\* respond_with_memory_first: search_memory(user_id, query, max_results=8)
ResponderMaxResults == 8

\* [...][:10]: the cap on the query tokens
MaxQueryTokens == 10

\* len(t) > 2
MinTokenLen == 2

\* bullets[:20]
MaxBullets == 20

\* str(ev)[:120]
EventExcerptLen == 120

\* q_tokens = [t.lower() for t in re.findall(r"\w+", query) if len(t) > 2][:10]
LowerAll(ts) == ([i \in 1..Len(ts) |-> Lower(ts[i])] \o <<>>)

QueryTokens(query) ==
    Take(LowerAll(SelectSeq(FindAllWords(query), LAMBDA t : Len(t) > MinTokenLen)), MaxQueryTokens)

\* some token occurs in the lowered text s
AnyTokenIn(s, q_tokens) == \E i \in 1..Len(q_tokens) : Contains(s, q_tokens[i])

\* the inner loop of search_memory: some token occurs in json.dumps(ev).lower()
EventMatches(ev, q_tokens) == AnyTokenIn(Lower(Dumps(ev)), q_tokens)

RECURSIVE ScanEvents(_, _, _, _)
RECURSIVE ScanNext(_, _, _, _)
\* the loop of search_memory over the events still to visit (newest first)
ScanEvents(evs, q_tokens, max_results, matches) ==
    IF Len(evs) = 0 THEN matches
    ELSE ScanNext(Tail(evs), q_tokens, max_results,
                  IF EventMatches(Head(evs), q_tokens) THEN Append(matches, Head(evs)) ELSE matches)

\* if len(matches) >= max_results: break
ScanNext(rest, q_tokens, max_results, matches) ==
    IF Len(matches) >= max_results THEN matches
    ELSE ScanEvents(rest, q_tokens, max_results, matches)

\* search_memory on the events of the user and the tokens of the query
SearchEvents(events, q_tokens, max_results) ==
    IF ~Truthy(events) THEN PyList(<<>>)
    ELSE IF Len(q_tokens) = 0 THEN PyList(<<>>)
    ELSE PyList(ScanEvents(Reverse(events.v), q_tokens, max_results, <<>>))

\* ConversationalAgent.search_memory
search_memory(st, user_id, query, max_results) ==
    SearchEvents(get_user_memory(st, user_id), QueryTokens(query), max_results)

IsNumeral(s) == Len(s) > 0 /\ \A i \in 1..Len(s) : s[i] \in Range(DigitChars)

RECURSIVE NumeralValue(_)
NumeralValue(s) ==
    IF Len(s) = 0 THEN 0
    ELSE 10 * NumeralValue(SubSeq(s, 1, Len(s) - 1)) + ((CHOOSE i \in 1..10 : DigitChars[i] = s[Len(s)]) - 1)

\* time.strftime("%Y-%m-%d %H:%M", time.localtime(secs)) in UTC, for a time of the first day
FormatTime(secs) == <<"1","9","7","0","-","0","1","-","0","1"," ">> \o TwoDigits((secs \div 3600) % 24) \o <<":">> \o TwoDigits((secs \div 60) % 60)

\* try: strftime(..., localtime(float(ts))) except: str(ts); a str ts is a numeral or no number
HumanTs(ts) ==
    CASE ts.t \in {"int", "float"} -> FormatTime(ts.v)
      [] ts.t = "str" /\ IsNumeral(ts.v) -> FormatTime(NumeralValue(ts.v))
      [] OTHER -> Str(ts)

IsType(tp, name) == IsStr(tp) /\ tp.v = name

\* a faulty bullet: the medication is left out
AdherenceBulletUnnamed(med, ts) == <<"-"," ","T","o","o","k"," ","m","e","d","i","c","a","t","i","o","n"," ","a","t"," ">> \o HumanTs(ts)

\* f"- Took {med} at {human_ts}"
AdherenceBullet(med, ts) == <<"-"," ","T","o","o","k"," ">> \o Str(med) \o <<" ","a","t"," ">> \o HumanTs(ts)

\* the text an f-string puts for two values
BulletText(head, a, mid, b) == head \o Str(a) \o mid \o Str(b)

StrValues(l) == ([i \in 1..Len(l) |-> l[i].v] \o <<>>)

\* the bullet summarize_events appends for one event of type tp (the list-valued keys of
\* an uploaded_doc_summary hold lists of str, as handle_uploaded_document writes them)
BulletOfType(ev, tp) ==
    IF IsType(tp, <<"a","d","h","e","r","e","n","c","e","_","e","v","e","n","t">>)
    THEN AdherenceBullet(Or(Or(Get(ev, <<"m","e","d">>), Get(ev, <<"m","e","d","_","n","a","m","e">>)), PyStr(<<>>)),
                         Or(Or(Or(Get(ev, <<"t","i","m","e","s","t","a","m","p">>), Get(ev, <<"r","e","c","o","r","d","e","d","_","a","t">>)), Get(ev, <<"t","i","m","e">>)), PyStr(<<>>)))
    ELSE IF IsType(tp, <<"u","p","l","o","a","d","e","d","_","d","o","c","_","s","u","m","m","a","r","y">>)
    THEN BulletText(<<"-"," ","U","p","l","o","a","d","e","d"," ","d","o","c"," ","k","e","y","w","o","r","d","s",":"," ">>,
                    PyStr(Join(StrValues(Take(GetOr(ev, <<"k","e","y","w","o","r","d","s">>, PyList(<<>>)).v, 6)), <<","," ">>)),
                    <<"."," ","S","u","g","g","e","s","t","e","d",":"," ">>,
                    PyStr(Join(StrValues(GetOr(ev, <<"s","u","g","g","e","s","t","e","d","_","s","p","e","c","i","a","l","t","i","e","s">>, PyList(<<>>)).v), <<","," ">>)))
    ELSE IF IsType(tp, <<"d","o","c","t","o","r","_","a","d","v","i","c","e">>)
    THEN BulletText(<<"-"," ","D","o","c","t","o","r"," ">>, GetOr(ev, <<"d","o","c","t","o","r","_","i","d">>, PyStr(<<"d","o","c","t","o","r">>)),
                    <<" ","a","d","v","i","s","e","d",":"," ">>, GetOr(ev, <<"a","d","v","i","c","e","_","t","e","x","t">>, PyStr(<<>>)))
    ELSE BulletText(<<"-"," ">>, tp, <<":"," ">>, PyStr(Take(Str(ev), EventExcerptLen)))

\* tp = ev.get("type", "event")
Bullet(ev) == BulletOfType(ev, GetOr(ev, <<"t","y","p","e">>, PyStr(<<"e","v","e","n","t">>)))

Bullets(events) == ([i \in 1..Len(events) |-> Bullet(events[i])] \o <<>>)

\* summary = "\n".join(bullets[:20])
SummaryOf(bullets) == Join(Take(bullets, MaxBullets), <<"\n">>)

\* lines 213-218: model_out or summary
CompressedSummary(model_out, summary) ==
    [ret |-> Or(model_out.ret, PyStr(summary)), requests |-> model_out.requests]

\* lines 212-218 for the summary of the bullets
SummaryResult(events, summary, concise, key, net) ==
    IF Len(events) > MaxBullets /\ ~concise
    THEN CompressedSummary(
             call_gemini(key, <<"S","u","m","m","a","r","i","z","e"," ","t","h","e","s","e"," ","p","a","t","i","e","n","t"," ","e","v","e","n","t","s"," ","i","n","t","o"," ","3"," ","c","o","n","c","i","s","e"," ","l","i","n","e","s",":","\n","\n">> \o summary, net),
             summary)
    ELSE [ret |-> PyStr(summary), requests |-> 0]

\* ConversationalAgent.summarize_events: the value returned and the requests issued
summarize_events(events, concise, key, net) ==
    IF Len(events) = 0 THEN [ret |-> PyStr(<<>>), requests |-> 0]
    ELSE SummaryResult(events, SummaryOf(Bullets(events)), concise, key, net)

SavedNotesHeader == <<"I"," ","f","o","u","n","d"," ","t","h","e","s","e"," ","s","a","v","e","d"," ","n","o","t","e","s"," ","r","e","l","a","t","e","d"," ","t","o"," ","y","o","u","r"," ","q","u","e","s","t","i","o","n",":","\n","\n">>

SavedNotesFooter == <<"\n","\n","I","f"," ","y","o","u"," ","w","a","n","t"," ","m","o","r","e"," ","d","e","t","a","i","l","s"," ","I"," ","c","a","n"," ","e","x","p","a","n","d"," ","o","r"," ","a","s","k"," ","t","h","e"," ","m","o","d","e","l"," ","t","o"," ","i","n","t","e","r","p","r","e","t"," ","t","h","e","s","e",".">>

\* lines 232-240 for the matches and their summary
RespondFrom(matches, summary, key, query, net) ==
    IF Truthy(matches) /\ Len(Strip(summary.ret.v)) > 0
    THEN [ret |-> PyStr(SavedNotesHeader \o summary.ret.v \o SavedNotesFooter), requests |-> summary.requests]
    ELSE call_gemini(key, query, net)

\* lines 231-233
RespondTo(matches, key, query, net) ==
    RespondFrom(matches, summarize_events(matches.v, TRUE, key, net), key, query, net)

\* ConversationalAgent.respond_with_memory_first: the value returned and the requests issued
respond_with_memory_first(st, key, user_id, query, net) ==
    RespondTo(search_memory(st, user_id, query, ResponderMaxResults), key, query, net)

-----------------------------------------------------------------------------
(* tools/docs_processor.py: extract_keywords *)

\* extract_keywords(text, top_k=20) and keywords[:20]
TopK == 20

\* re.sub(r"[^a-z0-9\s\-]", " ", text.lower())
KeptChars == LowerSet \cup Range(DigitChars) \cup {"-", " ", "\n", "\t"}

CleanText(text) == ([i \in 1..Len(text) |-> IF LowerChar(text[i]) \in KeptChars THEN LowerChar(text[i]) ELSE " "] \o <<>>)

\* tokens = [w for w in t.split() if len(w) > 2]
DocTokens(text) == SelectSeq(Runs(CleanText(text), {" ", "\n", "\t"}, FALSE), LAMBDA w : Len(w) > 2)

\* the set of 1-, 2- and 3-grams of the tokens
Ngrams(tokens) ==
    {Join(SubSeq(tokens, i, i + n - 1), <<" ">>) : <<i, n>> \in {p \in (1..Len(tokens)) \X (1..3) : p[1] + p[2] - 1 <= Len(tokens)}}

MedicalWords == {<<"p","a","i","n">>, <<"p","r","e","s","s","u","r","e">>, <<"d","i","a","b","e","t","e","s">>, <<"f","e","v","e","r">>, <<"c","o","u","g","h">>, <<"f","r","a","c","t","u","r","e">>, <<"r","a","s","h">>, <<"l","i","p","i","d">>,
                 <<"c","h","o","l","e","s","t","e","r","o","l">>, <<"b","l","o","o","d">>, <<"m","e","t","f","o","r","m","i","n">>, <<"a","t","o","r","v","a","s","t","a","t","i","n">>, <<"a","s","p","i","r","i","n">>, <<"w","a","r","f","a","r","i","n">>}

\* the n-grams extract_keywords returns from, before it orders and cuts them
Prioritized(ngrams) == {g \in ngrams : \E k \in MedicalWords : Contains(g, k)}

PrioritizedOr(ngrams, prioritized) == IF prioritized = {} THEN ngrams ELSE prioritized

PrioritizedNgrams(text) == PrioritizedOr(Ngrams(DocTokens(text)), Prioritized(Ngrams(DocTokens(text))))

\* list(s)[:n] of a set s: the iteration order of a set of str is not fixed, so every
\* one-to-one listing of n of its elements (of all of them when it has at most n) is possible
ListingsOfLen(s, len) == {l \in [1..len -> s] : \A i, j \in 1..len : l[i] = l[j] => i = j}

Listings(s, n) == ListingsOfLen(s, IF Cardinality(s) < n THEN Cardinality(s) ELSE n)

\* extract_keywords: the lists it may return
extract_keywords(text) == Listings(PrioritizedNgrams(text), TopK)

-----------------------------------------------------------------------------
(* agents/convo_agent.py: the app features *)

\* parts[:6]
MaxModelSpecialties == 6

\* doc_text[:500]
RawExcerptLen == 500

\* specialty_map of handle_uploaded_document, in the order the dict is written
SpecialtyMap ==
    << [token |-> <<"c","h","e","s","t"," ","p","a","i","n">>, specs |-> {<<"C","a","r","d","i","o","l","o","g","y">>}],
       [token |-> <<"s","h","o","r","t","n","e","s","s"," ","o","f"," ","b","r","e","a","t","h">>, specs |-> {<<"P","u","l","m","o","n","o","l","o","g","y">>, <<"C","a","r","d","i","o","l","o","g","y">>}],
       [token |-> <<"h","i","g","h"," ","b","l","o","o","d"," ","p","r","e","s","s","u","r","e">>, specs |-> {<<"C","a","r","d","i","o","l","o","g","y">>, <<"I","n","t","e","r","n","a","l"," ","M","e","d","i","c","i","n","e">>}],
       [token |-> <<"d","i","a","b","e","t","e","s">>, specs |-> {<<"E","n","d","o","c","r","i","n","o","l","o","g","y">>, <<"I","n","t","e","r","n","a","l"," ","M","e","d","i","c","i","n","e">>}],
       [token |-> <<"e","l","e","v","a","t","e","d"," ","l","i","p","i","d","s">>, specs |-> {<<"C","a","r","d","i","o","l","o","g","y">>, <<"E","n","d","o","c","r","i","n","o","l","o","g","y">>}],
       [token |-> <<"f","r","a","c","t","u","r","e">>, specs |-> {<<"O","r","t","h","o","p","e","d","i","c","s">>}],
       [token |-> <<"s","k","i","n"," ","r","a","s","h">>, specs |-> {<<"D","e","r","m","a","t","o","l","o","g","y">>}],
       [token |-> <<"a","b","d","o","m","i","n","a","l"," ","p","a","i","n">>, specs |-> {<<"G","a","s","t","r","o","e","n","t","e","r","o","l","o","g","y">>}] >>

\* the rule-based pass: the specialties of every table phrase found in a keyword
RuleSpecialties(keywords) ==
    UNION {SpecialtyMap[m].specs : m \in {n \in 1..Len(SpecialtyMap) :
                \E i \in 1..Len(keywords) : Contains(Lower(keywords[i]), SpecialtyMap[n].token)}}

SentinelMarkers == {<<"M","O","D","E","L","_","T","R","U","N","C","A","T","E","D">>, <<"S","I","M","U","L","A","T","E","D"," ","M","O","D","E","L"," ","R","E","S","P","O","N","S","E">>, <<"A","P","I"," ","E","R","R","O","R">>, <<"U","N","P","A","R","S","E","A","B","L","E">>}

DefaultSpecialties == {<<"P","r","i","m","a","r","y"," ","C","a","r","e">>, <<"I","n","t","e","r","n","a","l"," ","M","e","d","i","c","i","n","e">>}

\* parts = [p.strip() for p in re.split(r"[,\n;]+", ms_text) if len(p.strip()) > 2]
StripAll(ps) == ([i \in 1..Len(ps) |-> Strip(ps[i])] \o <<>>)

ReplyParts(ms_text) == SelectSeq(StripAll(Runs(ms_text, {",", "\n", ";"}, FALSE)), LAMBDA p : Len(p) > 2)

\* a faulty parse: every fragment of the reply is suggested, past the first six
SpecialtiesFromTextUncapped(ms_text) ==
    IF Len(Strip(ms_text)) = 0 \/ \E sig \in SentinelMarkers : Contains(Upper(ms_text), sig)
    THEN DefaultSpecialties
    ELSE Range(ReplyParts(ms_text))

\* lines 302-310 for ms_text
SpecialtiesFromText(ms_text) ==
    IF Len(Strip(ms_text)) = 0 \/ \E sig \in SentinelMarkers : Contains(Upper(ms_text), sig)
    THEN DefaultSpecialties
    ELSE Range(Take(ReplyParts(ms_text), MaxModelSpecialties))

\* lines 301-310: ms_text = str(model_suggestions or "")
ModelSpecialties(model_suggestions) == SpecialtiesFromText(Str(Or(model_suggestions, PyStr(<<>>))))

\* the prompt handle_uploaded_document sends when the rule-based pass finds nothing
SpecialtyPrompt(keywords) ==
    <<"G","i","v","e","n"," ","t","h","e","s","e"," ","e","x","t","r","a","c","t","e","d"," ","k","e","y","w","o","r","d","s"," ","f","r","o","m"," ","a"," ","m","e","d","i","c","a","l"," ","r","e","c","o","r","d",":"," ">>
        \o Repr(PyList(([i \in 1..Len(Take(keywords, TopK)) |-> PyStr(keywords[i])] \o <<>>)))
        \o <<","," ","s","u","g","g","e","s","t"," ","l","i","k","e","l","y"," ","m","e","d","i","c","a","l"," ","s","p","e","c","i","a","l","t","i","e","s"," ","a"," ","p","a","t","i","e","n","t"," ","s","h","o","u","l","d"," ","v","i","s","i","t",".">>

\* lines 295-310 for the reply of the model
FromReply(reply) == [set |-> ModelSpecialties(reply.ret), requests |-> reply.requests]

\* lines 288-310: the suggested set and the requests issued
SuggestedSpecialties(keywords, key, net) ==
    IF RuleSpecialties(keywords) # {} THEN [set |-> RuleSpecialties(keywords), requests |-> 0]
    ELSE FromReply(call_gemini(key, SpecialtyPrompt(keywords), net))

StrList(l) == PyList(([i \in 1..Len(l) |-> PyStr(l[i])] \o <<>>))

\* summary_entry of handle_uploaded_document
DocSummaryEntry(user_id, keywords, suggested, doc_text, now) ==
    PyDict(<< Item(<<"t","y","p","e">>, PyStr(<<"u","p","l","o","a","d","e","d","_","d","o","c","_","s","u","m","m","a","r","y">>)),
              Item(<<"u","s","e","r","_","i","d">>, PyStr(user_id)),
              Item(<<"k","e","y","w","o","r","d","s">>, StrList(keywords)),
              Item(<<"s","u","g","g","e","s","t","e","d","_","s","p","e","c","i","a","l","t","i","e","s">>, StrList(suggested)),
              Item(<<"r","a","w","_","e","x","c","e","r","p","t">>, PyStr(Take(doc_text, RawExcerptLen))),
              Item(<<"r","e","c","o","r","d","e","d","_","a","t">>, PyFloat(now)) >>)

\* the med and dose send_reminder_and_record reads from the event
ReminderMed(event) == Or(Or(Get(event, <<"m","e","d">>), Get(event, <<"m","e","d","_","n","a","m","e">>)), PyStr(<<"m","e","d","i","c","a","t","i","o","n">>))

ReminderDose(event) == Or(Or(Get(event, <<"d","o","s","e">>), Get(event, <<"d","o","s","a","g","e">>)), PyStr(<<>>))

ReminderPromptFor(med, dose) ==
    <<"R","e","m","i","n","d","e","r",":"," ","I","t","'","s"," ","t","i","m","e"," ","t","o"," ","t","a","k","e"," ">> \o med \o <<" ">> \o dose
        \o <<"."," ","A","s","k"," ","t","h","e"," ","u","s","e","r"," ","t","o"," ","c","o","n","f","i","r","m"," ","'","D","i","d"," ","y","o","u"," ","t","a","k","e"," ">> \o med \o <<"?","'"," ","a","n","d"," ","h","a","n","d","l","e"," ","y","e","s","/","n","o",".">>

ReminderPrompt(event) == ReminderPromptFor(Str(ReminderMed(event)), Str(ReminderDose(event)))

\* entry of send_reminder_and_record
AdherenceEntry(user_id, event, timestamp) ==
    PyDict(<< Item(<<"t","y","p","e">>, PyStr(<<"a","d","h","e","r","e","n","c","e","_","e","v","e","n","t">>)),
              Item(<<"u","s","e","r","_","i","d">>, PyStr(user_id)),
              Item(<<"m","e","d">>, ReminderMed(event)),
              Item(<<"d","o","s","e">>, ReminderDose(event)),
              Item(<<"t","i","m","e","s","t","a","m","p">>, PyFloat(timestamp)),
              Item(<<"u","s","e","r","_","r","e","p","l","y">>, PyStr(<<"Y","e","s",","," ","I"," ","t","o","o","k"," ","i","t",".">>)),
              Item(<<"r","e","c","o","r","d","e","d","_","a","t">>, PyFloat(timestamp)) >>)

\* note of doctor_add_advice
DoctorNote(user_id, doctor_id, advice_text, related_specialties, t1, t2) ==
    PyDict(<< Item(<<"t","y","p","e">>, PyStr(<<"d","o","c","t","o","r","_","a","d","v","i","c","e">>)),
              Item(<<"u","s","e","r","_","i","d">>, PyStr(user_id)),
              Item(<<"d","o","c","t","o","r","_","i","d">>, PyStr(doctor_id)),
              Item(<<"a","d","v","i","c","e","_","t","e","x","t">>, PyStr(advice_text)),
              Item(<<"r","e","l","a","t","e","d","_","s","p","e","c","i","a","l","t","i","e","s">>, StrList(related_specialties)),
              Item(<<"t","i","m","e","s","t","a","m","p">>, PyFloat(t1)),
              Item(<<"r","e","c","o","r","d","e","d","_","a","t">>, PyFloat(t2)) >>)

-----------------------------------------------------------------------------
(* agents/cli_chat.py: the command loop *)

\* the branch of the loop a stripped input line q takes (low = q.lower())
RouteOf(q, low) ==
    IF Len(q) = 0 THEN "skip"
    ELSE IF low \in {<<"e","x","i","t">>, <<"q","u","i","t">>} THEN "exit"
    ELSE IF Contains(low, <<"r","e","m","i","n","d">>) THEN "remind"
    ELSE IF StartsWith(low, <<"t","e","s","t"," ","r","e","m","i","n","d","e","r">>) \/ StartsWith(low, <<"t","e","s","t">>) THEN "test"
    ELSE IF StartsWith(low, <<"d","o","c">>) THEN "doc"
    ELSE IF StartsWith(low, <<"d","o","c","t","o","r">>) THEN "doctor"
    ELSE "chat"

Route(q) == RouteOf(q, Lower(q))

\* a faulty trace event: the prompt is left out
CliChatEventWithoutPrompt(q, resp, ts) ==
    PyDict(<< Item(<<"t","y","p","e">>, PyStr(<<"c","l","i","_","c","h","a","t">>)),
              Item(<<"u","s","e","r","_","i","d">>, PyStr(UID)),
              Item(<<"r","e","s","p","o","n","s","e">>, PyStr(Str(resp))),
              Item(<<"t","s">>, PyFloat(ts)) >>)

\* the event the loop appends after a free-text query
CliChatEvent(q, resp, ts) ==
    PyDict(<< Item(<<"t","y","p","e">>, PyStr(<<"c","l","i","_","c","h","a","t">>)),
              Item(<<"u","s","e","r","_","i","d">>, PyStr(UID)),
              Item(<<"p","r","o","m","p","t">>, PyStr(q)),
              Item(<<"r","e","s","p","o","n","s","e">>, PyStr(Str(resp))),
              Item(<<"t","s">>, PyFloat(ts)) >>)

-----------------------------------------------------------------------------
(* tools/medcheck_tool.py *)

\* t = m.get("time", "00:00")
TimeOf(m) == GetOr(m, <<"t","i","m","e">>, PyStr(<<"0","0",":","0","0">>))

\* a faulty grouping: the name replaces those already listed at the time
AppendAtTimeReplacing(times, t, name) ==
    IF \E j \in 1..Len(times) : times[j].k = t
    THEN ([j \in 1..Len(times) |-> IF times[j].k = t THEN Item(t, PyList(<<name>>)) ELSE times[j]] \o <<>>)
    ELSE Append(times, Item(t, PyList(<<name>>)))

\* times.setdefault(t, []).append(m["name"]): times keeps its keys in insertion order
AppendAtTime(times, t, name) ==
    IF \E j \in 1..Len(times) : times[j].k = t
    THEN ([j \in 1..Len(times) |-> IF times[j].k = t THEN Item(t, PyList(Append(times[j].v.v, name))) ELSE times[j]] \o <<>>)
    ELSE Append(times, Item(t, PyList(<<name>>)))

RECURSIVE GroupByTime(_, _, _)
\* the first loop of medcheck from meds[i] on
GroupByTime(meds, i, times) ==
    IF i > Len(meds) THEN times
    ELSE GroupByTime(meds, i + 1, AppendAtTime(times, TimeOf(meds[i]).v, Get(meds[i], <<"n","a","m","e">>)))

TimingConflict(t, names_at_time) ==
    PyDict(<< Item(<<"t","y","p","e">>, PyStr(<<"t","i","m","i","n","g","_","c","o","n","f","l","i","c","t">>)), Item(<<"t","i","m","e">>, PyStr(t)), Item(<<"m","e","d","s">>, names_at_time) >>)

\* the second loop of medcheck: a flag for every time with more than one name
TimingConflicts(times) ==
    ([i \in 1..Len(SelectSeq(times, LAMBDA e : Len(e.v.v) > 1)) |->
        TimingConflict(SelectSeq(times, LAMBDA e : Len(e.v.v) > 1)[i].k,
                       SelectSeq(times, LAMBDA e : Len(e.v.v) > 1)[i].v)] \o <<>>)

\* names = [m["name"] for m in meds]
NamesOf(meds) == ([i \in 1..Len(meds) |-> Get(meds[i], <<"n","a","m","e">>)] \o <<>>)

\* the flag of a hard-coded pair
Interaction(a, b, severity, note) ==
    PyDict(<< Item(<<"t","y","p","e">>, PyStr(<<"i","n","t","e","r","a","c","t","i","o","n">>)), Item(<<"p","a","i","r">>, PyList(<<PyStr(a), PyStr(b)>>)),
              Item(<<"s","e","v","e","r","i","t","y">>, PyStr(severity)), Item(<<"n","o","t","e">>, PyStr(note)) >>)

\* the basic interaction rules
Interactions(names) ==
    (IF PyStr(<<"W","a","r","f","a","r","i","n">>) \in Range(names) /\ PyStr(<<"A","s","p","i","r","i","n">>) \in Range(names)
     THEN <<Interaction(<<"W","a","r","f","a","r","i","n">>, <<"A","s","p","i","r","i","n">>, <<"h","i","g","h">>, <<"B","l","e","e","d","i","n","g"," ","r","i","s","k">>)>> ELSE <<>>)
    \o (IF PyStr(<<"M","e","t","f","o","r","m","i","n">>) \in Range(names) /\ PyStr(<<"C","o","n","t","r","a","s","t">>) \in Range(names)
        THEN <<Interaction(<<"M","e","t","f","o","r","m","i","n">>, <<"C","o","n","t","r","a","s","t">>, <<"m","o","d","e","r","a","t","e">>, <<"C","o","n","s","i","d","e","r"," ","h","o","l","d","i","n","g"," ","M","e","t","f","o","r","m","i","n"," ","a","r","o","u","n","d"," ","c","o","n","t","r","a","s","t"," ","i","m","a","g","i","n","g">>)>>
        ELSE <<>>)

\* medcheck(meds) for meds that all have a name (m["name"] raises KeyError otherwise)
medcheck(meds) == PyList(TimingConflicts(GroupByTime(meds, 1, <<>>)) \o Interactions(NamesOf(meds)))

-----------------------------------------------------------------------------
(* What the network does with the one request of a call *)

TransportFailure == [fails |-> TRUE, status |-> 0, parses |-> FALSE, body |-> PyNone]

\* a response with this status whose body is this JSON document
JsonResponse(status, body) == [fails |-> FALSE, status |-> status, parses |-> TRUE, body |-> body]

\* a response with this status whose body is not JSON
TextResponse(status) == [fails |-> FALSE, status |-> status, parses |-> FALSE, body |-> PyNone]

Candidate(items) == PyDict(<<Item(<<"c","a","n","d","i","d","a","t","e","s">>, PyList(<<PyDict(items)>>))>>)

Parts(first) == Item(<<"c","o","n","t","e","n","t">>, PyDict(<<Item(<<"p","a","r","t","s">>, PyList(<<first>>))>>))

TextPart(text) == Parts(PyDict(<<Item(<<"t","e","x","t">>, text)>>))

Finish(reason) == Item(<<"f","i","n","i","s","h","R","e","a","s","o","n">>, PyStr(reason))

Responses ==
    << TransportFailure,
       JsonResponse(500, PyDict(<<Item(<<"e","r","r","o","r">>, PyStr(<<"q","u","o","t","a">>))>>)),
       TextResponse(200),
       TextResponse(502),
       JsonResponse(200, PyDict(<<>>)),
       JsonResponse(200, PyList(<<>>)),
       JsonResponse(200, PyList(<<PyInt(1)>>)),
       JsonResponse(200, PyStr(<<"a","b","c">>)),
       JsonResponse(200, PyInt(5)),
       JsonResponse(200, PyNone),
       JsonResponse(200, Candidate(<<TextPart(PyStr(<<"C","a","r","d","i","o","l","o","g","y",","," ","N","e","u","r","o","l","o","g","y">>)), Finish(<<"S","T","O","P">>)>>)),
       JsonResponse(200, Candidate(<<TextPart(PyStr(<<>>)), Finish(<<"S","T","O","P">>)>>)),
       JsonResponse(200, Candidate(<<TextPart(PyInt(5)), Finish(<<"S","T","O","P">>)>>)),
       JsonResponse(200, Candidate(<<TextPart(PyNone), Finish(<<"S","T","O","P">>)>>)),
       JsonResponse(200, Candidate(<<TextPart(PyStr(<<"T","a","k","e"," ","i","t">>)), Finish(<<"M","A","X","_","T","O","K","E","N","S">>)>>)),
       JsonResponse(200, Candidate(<<TextPart(PyStr(<<>>)), Finish(<<"M","A","X","_","T","O","K","E","N","S">>)>>)),
       JsonResponse(200, Candidate(<<TextPart(PyInt(5)), Finish(<<"M","A","X","_","T","O","K","E","N","S">>)>>)),
       JsonResponse(200, Candidate(<<Finish(<<"M","A","X","_","T","O","K","E","N","S">>)>>)),
       JsonResponse(200, Candidate(<<Item(<<"o","u","t","p","u","t">>, PyStr(<<"O","u","t">>))>>)),
       JsonResponse(200, PyDict(<<Item(<<"o","u","t","p","u","t","_","t","e","x","t">>, PyStr(<<"T","o","p">>))>>)),
       JsonResponse(200, PyDict(<<Item(<<"m","e","s","s","a","g","e","s">>, PyList(<<PyDict(<<Item(<<"c","o","n","t","e","n","t">>,
            PyList(<<PyDict(<<Item(<<"t","e","x","t">>, PyStr(<<"A">>))>>), PyDict(<<Item(<<"t","e","x","t">>, PyStr(<<"B">>))>>)>>))>>)>>))>>)),
       JsonResponse(200, PyDict(<<Item(<<"c","a","n","d","i","d","a","t","e","s">>, PyList(<<PyDict(<<TextPart(PyStr(<<>>))>>)>>)),
                                  Item(<<"o","u","t","p","u","t","_","t","e","x","t">>, PyStr(<<"T","o","p">>))>>)),
       JsonResponse(200, PyDict(<<Item(<<"c","a","n","d","i","d","a","t","e","s">>, PyStr(<<"a","b","c">>))>>)),
       JsonResponse(200, PyDict(<<Item(<<"m","e","s","s","a","g","e","s">>, PyList(<<PyDict(<<Item(<<"c","o","n","t","e","n","t">>,
            PyList(<<PyDict(<<Item(<<"t","e","x","t">>, PyInt(5))>>)>>))>>)>>))>>)),
       JsonResponse(200, Candidate(<<Parts(PyStr(<<"p","l","a","i","n">>))>>)),
       JsonResponse(201, Candidate(<<TextPart(PyStr(<<"C","r","e","a","t","e","d">>)), Finish(<<"S","T","O","P">>)>>)),
       JsonResponse(200, Candidate(<<Parts(PyDict(<<Item(<<"i","n","l","i","n","e","D","a","t","a">>, PyStr(<<"x">>))>>)), Item(<<"o","u","t","p","u","t">>, PyStr(<<"O","u","t">>))>>)),
       JsonResponse(200, Candidate(<<TextPart(PyList(<<PyStr(<<"a">>)>>)), Finish(<<"S","T","O","P">>)>>)),
       JsonResponse(200, Candidate(<<TextPart(PyStr(<<"E","N","T",",","E","N","T",";","E","N","T","\n","E","N","T"," ",","," ","G","P",",","E","y","e",",","G","u","t",",","E","a","r">>)), Finish(<<"S","T","O","P">>)>>)),
       JsonResponse(200, Candidate(<<TextPart(PyStr(<<"C","a","r","d","i","o","l","o","g","y"," ","(","n","o"," ","a","p","i"," ","e","r","r","o","r",")">>)), Finish(<<"S","T","O","P">>)>>)),
       JsonResponse(200, Candidate(<<TextPart(PyStr(<<" ","\n">>)), Finish(<<"S","T","O","P">>)>>)) >>

\* the network behaviours the store and responder specifications draw from:
\* a transport failure and a 200 reply with text
AppNets == {1, 11}

-----------------------------------------------------------------------------
(* Inputs *)

\* the longest prompt is one character longer than what the simulated reply echoes
MaxPromptPad == 1

Filler(n) == ([i \in 1..n |-> "x"] \o <<>>)

Prompts ==
    << <<>>, <<"h","e","l","l","o">>, Filler(PromptEchoLen - 1), Filler(PromptEchoLen), Filler(PromptEchoLen + MaxPromptPad) >>

\* free-text queries: one token, mixed case with short words, no token of length > 2,
\* a non-ASCII letter, and eleven tokens of which the last one is past the cap
Queries ==
    << <<"m","e","t">>,
       <<"D","i","d"," ","I"," ","t","a","k","e"," ","M","e","t","?">>,
       <<"h","i">>,
       <<"c","a","f","U+00E9"," ","a","u"," ","l","a","i","t">>,
       <<"a","a","a"," ","b","b","b"," ","c","c","c"," ","d","d","d"," ","e","e","e"," ","f","f","f"," ","g","g","g"," ","h","h","h"," ","i","i","i"," ","j","j","j"," ","m","e","t">> >>

\* the max_results a caller of search_memory passes
MaxResultsInputs == {0, 1, ResponderMaxResults}

\* lines typed at the CLI prompt
ChatLines == << <<" ","m","e","t"," ">>, <<"D","i","d"," ","I"," ","t","a","k","e"," ","M","e","t","?">>, <<"h","i","\n">> >>

\* lines typed at the CLI prompt in the command-loop specification: those above, a
\* line with a non-ASCII word, and one whose eleventh token is "met"
CliLines ==
    ChatLines \o << <<"c","a","f","U+00E9"," ","a","u"," ","l","a","i","t">>, <<"a","a","a"," ","b","b","b"," ","c","c","c"," ","d","d","d"," ","e","e","e"," ","f","f","f"," ","g","g","g"," ","h","h","h"," ","i","i","i"," ","j","j","j"," ","m","e","t">> >>

\* events a caller hands to append_user_event
DirectEvents(user_id) ==
    << PyDict(<<Item(<<"t","y","p","e">>, PyStr(<<"n","o","t","e">>)), Item(<<"t","e","x","t">>, PyStr(<<"M","e","t"," ","r","e","f","i","l","l">>))>>),
       PyDict(<<Item(<<"t","y","p","e">>, PyStr(<<"a","d","h","e","r","e","n","c","e","_","e","v","e","n","t">>)), Item(<<"u","s","e","r","_","i","d">>, PyStr(user_id)),
                Item(<<"m","e","d">>, PyStr(<<"A","s","p">>)), Item(<<"r","e","c","o","r","d","e","d","_","a","t">>, PyInt(7))>>),
       PyDict(<<Item(<<"t","y","p","e">>, PyStr(<<"a","d","h","e","r","e","n","c","e","_","e","v","e","n","t">>)), Item(<<"u","s","e","r","_","i","d">>, PyStr(user_id)),
                Item(<<"m","e","d","_","n","a","m","e">>, PyStr(<<"M","e","t">>)), Item(<<"t","i","m","e">>, PyStr(<<"0","8",":","0","0">>))>>) >>

\* events handed to send_reminder_and_record: the CLI's, and one with med_name and dosage
ReminderEvents ==
    << PyDict(<<Item(<<"m","e","d">>, PyStr(<<"M","e","t">>)), Item(<<"t","i","m","e">>, PyStr(<<"0","8",":","0","0">>)), Item(<<"f","r","e","q","u","e","n","c","y">>, PyStr(<<"o","n","c","e">>))>>),
       PyDict(<<Item(<<"m","e","d","_","n","a","m","e">>, PyStr(<<"A","s","p">>)), Item(<<"d","o","s","a","g","e">>, PyStr(<<"5","m","g">>))>>) >>

\* uploaded document texts
Docs == << <<>>, <<"D","i","a","b","e","t","e","s",".">>, <<"a"," ","f","l","u">> >>

DoctorIds == {<<"d","r","-","1">>}

AdviceTexts == {<<"t","a","k","e"," ","w","i","t","h"," ","f","o","o","d">>}

RelatedInputs == {<<>>, <<<<"C","a","r","d","i","o","l","o","g","y">>>>}

\* the medications of one list handed to medcheck
MaxMeds == 4

MedNames == {<<"A">>, <<"W","a","r","f","a","r","i","n">>, <<"A","s","p","i","r","i","n">>}

\* a med with a time at 08:00 or at midnight, or without one
Meds ==
    {PyDict(<<Item(<<"n","a","m","e">>, PyStr(n)), Item(<<"t","i","m","e">>, PyStr(t))>>) : <<n, t>> \in MedNames \X {<<"0","8",":","0","0">>, <<"0","0",":","0","0">>}}
        \cup {PyDict(<<Item(<<"n","a","m","e">>, PyStr(n))>>) : n \in MedNames}

MedLists == UNION {[1..n -> Meds] : n \in 0..MaxMeds}

-----------------------------------------------------------------------------
(* State *)
(* store:   MemoryBank.store, a function from the users that have a key to  *)
(*          their lists of events                                          *)
(* file:    the document in memory_bank.json, or CorruptFile               *)
(* apiKey:  a GEMINI_API_KEY is configured                                 *)
(* appends: the events appended since the MemoryBank was constructed       *)
(* last:    the last call: its name, arguments, the network behaviour it   *)
(*          met, the value it returned and the requests it issued          *)
(* other:   the store of a second MemoryBank that another process (the     *)
(*          demo driver beside the CLI) opened on the same file            *)

\* the appends of one session
MaxAppends == 2

\* the documents uploaded in one session of the upload specification
MaxUploads == 1

Call(op, user, arg, net, ret, requests) ==
    [op |-> op, user |-> user, arg |-> arg, net |-> net, ret |-> ret, requests |-> requests]

NoCall == Call("none", U1, PyNone, 0, PyNone, 0)

\* an adherence event of an earlier session, as send_reminder_and_record stored it
EarlierReminder(user_id) == AdherenceEntry(user_id, ReminderEvents[1], 100)

\* a note of an earlier session, as doctor_add_advice stored it
EarlierAdvice(user_id) == DoctorNote(user_id, <<"d","r","-","1">>, <<"t","a","k","e"," ","w","i","t","h"," ","f","o","o","d">>, <<>>, 4000, 4000)

RECURSIVE EarlierAdvices(_, _, _)
\* the store after n more notes for the user
EarlierAdvices(st, user_id, n) ==
    IF n = 0 THEN st ELSE EarlierAdvices(ListAppend(st, user_id, EarlierAdvice(user_id)), user_id, n - 1)

\* the stores earlier sessions left: one reminder for u1; one reminder for the
\* CLI user followed by as many notes as the responder summarizes
EarlierStores ==
    << ListAppend(EmptyStore, U1, EarlierReminder(U1)),
       EarlierAdvices(ListAppend(EmptyStore, UID, EarlierReminder(UID)), UID, ResponderMaxResults) >>

\* memory_bank.json as the constructor finds it: absent (0), unreadable (1), or EarlierStores[d - 1]
DiskFile(d) ==
    IF d = 0 THEN _save(EmptyStore)
    ELSE IF d = 1 THEN CorruptFile
    ELSE _save(EarlierStores[d - 1])

\* MemoryBank.__init__ on one of the disks, with or without a credential in the environment
InitOn(disks, keys) ==
    /\ \E d \in disks : file = DiskFile(d) /\ store = _load(file)
    /\ other = store
    /\ apiKey \in keys
    /\ appends = 0
    /\ last = NoCall

Init == InitOn({0, 1, 2}, {FALSE})

-----------------------------------------------------------------------------
(* Operations *)

\* MemoryBank.append_user_event called directly
AppendUserEvent(user_id, event) ==
    /\ appends < MaxAppends
    /\ \E now \in Times : store' = append_user_event(store, user_id, event, now)
    /\ file' = _save(store')
    /\ appends' = appends + 1
    /\ last' = Call("append_user_event", user_id, event, 0, PyNone, 0)
    /\ UNCHANGED <<apiKey, other>>

\* a faulty append of the second MemoryBank: its copy gets the event, the file is not rewritten
OtherAppendUserEventUnsaved(user_id, event) ==
    /\ appends < MaxAppends
    /\ \E now \in Times : other' = append_user_event(other, user_id, event, now)
    /\ appends' = appends + 1
    /\ last' = Call("other.append_user_event", user_id, event, 0, PyNone, 0)
    /\ UNCHANGED <<store, file, apiKey>>

\* MemoryBank.append_user_event on the second MemoryBank: the event goes into its own
\* copy, loaded when it was constructed, and the whole file is rewritten from that copy
OtherAppendUserEvent(user_id, event) ==
    /\ appends < MaxAppends
    /\ \E now \in Times : other' = append_user_event(other, user_id, event, now)
    /\ file' = _save(other')
    /\ appends' = appends + 1
    /\ last' = Call("other.append_user_event", user_id, event, 0, PyNone, 0)
    /\ UNCHANGED <<store, apiKey>>

\* MemoryBank.get_user_memory
GetUserMemory(user_id) ==
    /\ last' = Call("get_user_memory", user_id, PyNone, 0, get_user_memory(store, user_id), 0)
    /\ UNCHANGED <<store, file, apiKey, appends, other>>

\* MemoryBank.clear_user_memory
ClearUserMemory(user_id) ==
    /\ IF user_id \in DOMAIN store
       THEN /\ store' = DelUser(store, user_id)
            /\ file' = _save(store')
            /\ last' = Call("clear_user_memory", user_id, PyNone, 0, PyBool(TRUE), 0)
       ELSE /\ UNCHANGED <<store, file>>
            /\ last' = Call("clear_user_memory", user_id, PyNone, 0, PyBool(FALSE), 0)
    /\ UNCHANGED <<apiKey, appends, other>>

\* the call op returned r.ret after r.requests requests
Returned(op, user, arg, net, r) == last' = Call(op, user, arg, net, r.ret, r.requests)

\* ConversationalAgent.call_gemini
CallGemini(prompt, net) ==
    /\ Returned("call_gemini", U1, PyStr(prompt), net, call_gemini(apiKey, prompt, Responses[net]))
    /\ UNCHANGED <<store, file, apiKey, appends, other>>

\* ConversationalAgent.search_memory
SearchMemory(user_id, query, max_results) ==
    /\ last' = Call("search_memory", user_id, [query |-> query, max_results |-> max_results], 0,
                    search_memory(store, user_id, query, max_results), 0)
    /\ UNCHANGED <<store, file, apiKey, appends, other>>

\* a faulty responder: the events it searched are dropped from the store and the file
RespondWithMemoryFirstConsuming(user_id, query, net) ==
    /\ Returned("respond_with_memory_first", user_id, PyStr(query), net,
                respond_with_memory_first(store, apiKey, user_id, query, Responses[net]))
    /\ store' = EmptyStore
    /\ file' = _save(store')
    /\ UNCHANGED <<apiKey, appends, other>>

\* ConversationalAgent.respond_with_memory_first
RespondWithMemoryFirst(user_id, query, net) ==
    /\ Returned("respond_with_memory_first", user_id, PyStr(query), net,
                respond_with_memory_first(store, apiKey, user_id, query, Responses[net]))
    /\ UNCHANGED <<store, file, apiKey, appends, other>>

\* the dict send_reminder_and_record returns
ReminderReply(r) ==
    [ret |-> PyDict(<< Item(<<"m","o","d","e","l","_","r","e","s","p","o","n","s","e">>, r.ret),
                       Item(<<"u","s","e","r","_","r","e","p","l","y">>, PyStr(<<"Y","e","s",","," ","I"," ","t","o","o","k"," ","i","t",".">>)),
                       Item(<<"s","a","v","e","d">>, PyBool(TRUE)) >>),
     requests |-> r.requests]

\* ConversationalAgent.send_reminder_and_record
SendReminderAndRecord(user_id, event, net) ==
    /\ appends < MaxAppends
    /\ \E timestamp \in Times :
          store' = append_user_event(store, user_id, AdherenceEntry(user_id, event, timestamp), timestamp)
    /\ file' = _save(store')
    /\ appends' = appends + 1
    /\ Returned("send_reminder_and_record", user_id, event, net,
                ReminderReply(call_gemini(apiKey, ReminderPrompt(event), Responses[net])))
    /\ UNCHANGED <<apiKey, other>>

\* lines 312-325: the summary entry is appended and list(suggested) returned
StoreDocSummary(user_id, doc_text, net, keywords, s) ==
    \E suggested \in Listings(s.set, Cardinality(s.set)), now \in Times :
        /\ store' = append_user_event(store, user_id,
                        DocSummaryEntry(user_id, keywords, suggested, doc_text, now), now)
        /\ last' = Call("handle_uploaded_document", user_id, PyStr(doc_text), net,
                        StrList(suggested), s.requests)

\* ConversationalAgent.handle_uploaded_document
HandleUploadedDocument(user_id, doc_text, net) ==
    /\ appends < MaxAppends
    /\ \E keywords \in extract_keywords(doc_text) :
          StoreDocSummary(user_id, doc_text, net, keywords,
                          SuggestedSpecialties(keywords, apiKey, Responses[net]))
    /\ file' = _save(store')
    /\ appends' = appends + 1
    /\ UNCHANGED <<apiKey, other>>

\* ConversationalAgent.doctor_add_advice
DoctorAddAdvice(user_id, doctor_id, advice_text, related_specialties) ==
    /\ appends < MaxAppends
    /\ \E t1 \in Times, t2 \in Times :
          /\ t1 <= t2
          /\ store' = append_user_event(store, user_id,
                          DoctorNote(user_id, doctor_id, advice_text, related_specialties, t1, t2), t2)
    /\ file' = _save(store')
    /\ appends' = appends + 1
    /\ last' = Call("doctor_add_advice", user_id, PyStr(advice_text), 0, PyBool(TRUE), 0)
    /\ UNCHANGED <<apiKey, other>>

\* lines 112-113: the reply r to the query q is printed and the cli_chat event appended
ChatTurn(q, net, r) ==
    /\ \E ts \in Times, now \in Times :
          /\ ts <= now
          /\ store' = append_user_event(store, UID, CliChatEvent(q, r.ret, ts), now)
    /\ Returned("cli_chat", UID, PyStr(q), net, r)

\* one turn of the CLI loop on the stripped input line q
CliLine(q, net) ==
    /\ Route(q) = "chat"
    /\ appends < MaxAppends
    /\ ChatTurn(q, net, respond_with_memory_first(store, apiKey, UID, q, Responses[net]))
    /\ file' = _save(store')
    /\ appends' = appends + 1
    /\ UNCHANGED <<apiKey, other>>

\* one turn of the CLI loop that takes the free-text branch (lines 85-113)
CliChat(line, net) == CliLine(Strip(line), net)

\* medcheck applied to the list at hand: a pure function, the store is not touched
Medcheck ==
    /\ last.op = "meds"
    /\ last' = Call("medcheck", last.user, last.arg, 0, medcheck(last.arg.v), 0)
    /\ UNCHANGED <<store, file, apiKey, appends, other>>

-----------------------------------------------------------------------------
(* Specifications *)

Next ==
    \/ \E u \in Users : \E i \in 1..Len(DirectEvents(u)) : AppendUserEvent(u, DirectEvents(u)[i])
    \/ \E u \in Users : GetUserMemory(u)
    \/ \E u \in Users : ClearUserMemory(u)
    \/ \E u \in Users, q \in 1..Len(Queries), m \in MaxResultsInputs : SearchMemory(u, Queries[q], m)

\* the MemoryBank under direct appends, reads, clears and searches
Spec == Init /\ [][Next]_vars

InitApp == InitOn({0}, BOOLEAN)

NextApp ==
    \/ \E u \in Users : \E i \in 1..Len(DirectEvents(u)) : AppendUserEvent(u, DirectEvents(u)[i])
    \/ \E u \in Users, i \in 1..Len(ReminderEvents), n \in AppNets : SendReminderAndRecord(u, ReminderEvents[i], n)
    \/ \E u \in Users, d \in 1..Len(Docs), n \in AppNets : HandleUploadedDocument(u, Docs[d], n)
    \/ \E u \in Users, d \in DoctorIds, a \in AdviceTexts, r \in RelatedInputs : DoctorAddAdvice(u, d, a, r)
    \/ \E l \in 1..Len(ChatLines), n \in AppNets : CliChat(ChatLines[l], n)
    \/ \E u \in Users : GetUserMemory(u)

\* every operation of the application that appends to the MemoryBank
SpecApp == InitApp /\ [][NextApp]_vars

InitResponder == InitOn({0, 3}, BOOLEAN)

NextResponder ==
    \/ \E u \in Users, q \in 1..Len(Queries), n \in AppNets : RespondWithMemoryFirst(u, Queries[q], n)
    \/ \E u \in Users, i \in 1..Len(ReminderEvents), n \in AppNets : SendReminderAndRecord(u, ReminderEvents[i], n)

\* the memory-first responder over the stores the reminders build on those of earlier sessions
SpecResponder == InitResponder /\ [][NextResponder]_vars

InitGateway == InitOn({0}, BOOLEAN)

NextGateway == \E p \in 1..Len(Prompts), n \in 1..Len(Responses) : CallGemini(Prompts[p], n)

\* call_gemini over the prompts and the network behaviours
SpecGateway == InitGateway /\ [][NextGateway]_vars

InitCli == InitOn({0}, BOOLEAN)

NextCli == \E l \in 1..Len(CliLines), n \in AppNets : CliChat(CliLines[l], n)

\* the free-text turns of the CLI loop
SpecCli == InitCli /\ [][NextCli]_vars

\* both MemoryBanks are constructed on the same file before either appends
InitWriters == InitOn({0, 2}, {FALSE})

NextWriters ==
    \/ \E u \in Users : \E i \in 1..Len(DirectEvents(u)) : AppendUserEvent(u, DirectEvents(u)[i])
    \/ \E u \in Users : \E i \in 1..Len(ReminderEvents) :
          OtherAppendUserEvent(u, AdherenceEntry(u, ReminderEvents[i], 100))

\* two MemoryBanks on one file: the appends of the CLI's and of the demo driver's,
\* each append taken as one step
SpecWriters == InitWriters /\ [][NextWriters]_vars

\* a medication list is at hand, medcheck has not been called
InitMedcheck ==
    /\ file = DiskFile(0)
    /\ store = _load(file)
    /\ other = store
    /\ apiKey = FALSE
    /\ appends = 0
    /\ \E meds \in MedLists : last = Call("meds", U1, PyList(meds \o <<>>), 0, PyNone, 0)

NextMedcheck == Medcheck

\* medcheck over the medication lists
SpecMedcheck == InitMedcheck /\ [][NextMedcheck]_vars

InitDocs == InitOn({0}, BOOLEAN)

NextDocs ==
    \E d \in 1..Len(Docs), n \in 1..Len(Responses) :
        appends < MaxUploads /\ HandleUploadedDocument(U1, Docs[d], n)

\* handle_uploaded_document over the documents and the network behaviours
SpecDocs == InitDocs /\ [][NextDocs]_vars

-----------------------------------------------------------------------------
(* Properties *)

\* s is an initial part of t
IsPrefix(s, t) == Len(s) <= Len(t) /\ SubSeq(t, 1, Len(s)) = s

\* the events stored for the user
EventsOf(st, user_id) == IF user_id \in DOMAIN st THEN st[user_id] ELSE <<>>

\* C1: an append_user_event call adds one event to its user's list and keeps, for every
\* user, the events stored before it as an initial part of the user's list, in the same
\* order, both in the in-memory store and in the file when it is read back
AppendKeepsEarlierEvents ==
    [][last'.op = "append_user_event" =>
          /\ Len(EventsOf(store', last'.user)) = Len(EventsOf(store, last'.user)) + 1
          /\ \A u \in DOMAIN store :
                /\ IsPrefix(store[u], EventsOf(store', u))
                /\ IsPrefix(store[u], EventsOf(_load(file'), u))]_vars

\* a second append of one session has landed behind an earlier event of the same user
SecondAppendBehindEarlier ==
    /\ last.op = "append_user_event"
    /\ appends >= 2
    /\ Len(EventsOf(store, last.user)) >= 2

\* got is the event e with a recorded_at item added when e has none
IsStamped(e, got) ==
    /\ IsDict(got)
    /\ HasKey(got, <<"r","e","c","o","r","d","e","d","_","a","t">>)
    /\ IF HasKey(e, <<"r","e","c","o","r","d","e","d","_","a","t">>)
       THEN got = e
       ELSE /\ Len(got.v) = Len(e.v) + 1
            /\ Range(got.v) = Range(e.v) \cup {Item(<<"r","e","c","o","r","d","e","d","_","a","t">>, Get(got, <<"r","e","c","o","r","d","e","d","_","a","t">>))}

\* C2: get_user_memory(user) right after append_user_event(user, e) returns a list whose
\* last element is e, with a recorded_at item added only when e carried none
AppendThenReadRoundTrip ==
    [][(last.op = "append_user_event" /\ last'.op = "get_user_memory" /\ last'.user = last.user) =>
          /\ Len(last'.ret.v) > 0
          /\ IsStamped(last.arg, last'.ret.v[Len(last'.ret.v)])]_vars

\* a read that returns an event stamped by the store followed by one that kept the
\* recorded_at its caller supplied
ReadShowsStampedAndKept ==
    /\ last.op = "get_user_memory"
    /\ Len(last.ret.v) >= 2
    /\ Get(last.ret.v[Len(last.ret.v)], <<"r","e","c","o","r","d","e","d","_","a","t">>) = PyInt(7)
    /\ Get(last.ret.v[Len(last.ret.v) - 1], <<"t","y","p","e">>) = PyStr(<<"n","o","t","e">>)
    /\ HasKey(last.ret.v[Len(last.ret.v) - 1], <<"r","e","c","o","r","d","e","d","_","a","t">>)

\* C3: for a user with no stored events get_user_memory and search_memory return the
\* empty list, whatever the query and whatever the other users have stored
UnknownUserReadsEmpty ==
    (last.op \in {"get_user_memory", "search_memory"} /\ Len(EventsOf(store, last.user)) = 0)
        => last.ret = PyList(<<>>)

\* a search with a usable token for a user without events, after a clear has removed
\* events of this session and while another user still has one
SearchAfterClear ==
    /\ last.op = "search_memory"
    /\ Len(QueryTokens(last.arg.query)) > 0
    /\ last.user \notin DOMAIN store
    /\ appends >= 2
    /\ \E u \in DOMAIN store : DOMAIN store = {u} /\ Len(store[u]) = 1

\* C4: every stored event has a user_id field and a recorded_at field
EveryEventHasUserIdAndRecordedAt ==
    \A u \in DOMAIN store : \A i \in 1..Len(store[u]) :
        HasKey(store[u][i], <<"u","s","e","r","_","i","d">>) /\ HasKey(store[u][i], <<"r","e","c","o","r","d","e","d","_","a","t">>)

IsAdherence(ev) == IsDict(ev) /\ Get(ev, <<"t","y","p","e">>) = PyStr(<<"a","d","h","e","r","e","n","c","e","_","e","v","e","n","t">>)

\* the medication name an adherence event carries
MedName(ev) == Str(Or(Or(Get(ev, <<"m","e","d">>), Get(ev, <<"m","e","d","_","n","a","m","e">>)), PyStr(<<>>)))

\* the events that hold one of the query's tokens, newest first
MatchesNewestFirst(evs, query) == SelectSeq(Reverse(evs), LAMBDA ev : EventMatches(ev, QueryTokens(query)))

\* the reply holds the fixed header, the fixed footer, and a bullet line with the
\* medication name of one of the events
ShowsSavedNotes(ret, evs) ==
    /\ IsStr(ret)
    /\ Contains(ret.v, <<"I"," ","f","o","u","n","d"," ","t","h","e","s","e"," ","s","a","v","e","d"," ","n","o","t","e","s">>)
    /\ Contains(ret.v, <<"I","f"," ","y","o","u"," ","w","a","n","t"," ","m","o","r","e"," ","d","e","t","a","i","l","s"," ","I"," ","c","a","n"," ","e","x","p","a","n","d"," ","o","r"," ","a","s","k"," ","t","h","e"," ","m","o","d","e","l"," ","t","o"," ","i","n","t","e","r","p","r","e","t"," ","t","h","e","s","e",".">>)
    /\ \E i \in 1..Len(evs) : \E l \in Range(Runs(ret.v, {"\n"}, FALSE)) :
          StartsWith(l, <<"-"," ">>) /\ Contains(l, MedName(evs[i]))

\* the reply is what the gateway returns for the raw query
IsGatewayReply(ret, query, net) == ret = call_gemini(apiKey, query, Responses[net]).ret

\* C5 as stated: when the query's tokens match an adherence_event of the user the reply
\* holds the header, a bullet line with the medication name and the footer; when they
\* match no event the reply is the gateway's result for the raw query
RespondDecidesByMemory ==
    last.op = "respond_with_memory_first" =>
        /\ Len(SelectSeq(MatchesNewestFirst(EventsOf(store, last.user), last.arg.v), IsAdherence)) > 0
              => ShowsSavedNotes(last.ret,
                     SelectSeq(MatchesNewestFirst(EventsOf(store, last.user), last.arg.v), IsAdherence))
        /\ Len(MatchesNewestFirst(EventsOf(store, last.user), last.arg.v)) = 0
              => IsGatewayReply(last.ret, last.arg.v, last.net)

\* C5 as amended: when an adherence_event of the user is among the 8 newest events the
\* query's tokens match, the reply holds the header, a bullet line with the medication
\* name of such an event and the footer; when the tokens match no event the reply is the
\* gateway's result for the raw query
RespondSummarizesNewestMatches ==
    last.op = "respond_with_memory_first" =>
        /\ Len(SelectSeq(Take(MatchesNewestFirst(EventsOf(store, last.user), last.arg.v), 8), IsAdherence)) > 0
              => ShowsSavedNotes(last.ret,
                     SelectSeq(Take(MatchesNewestFirst(EventsOf(store, last.user), last.arg.v), 8), IsAdherence))
        /\ Len(MatchesNewestFirst(EventsOf(store, last.user), last.arg.v)) = 0
              => IsGatewayReply(last.ret, last.arg.v, last.net)

\* a reply from a memory of more than 8 events in which an adherence_event is among
\* the newest matches
AdherenceAmongNewestMatches ==
    /\ last.op = "respond_with_memory_first"
    /\ Len(EventsOf(store, last.user)) > 8
    /\ Len(SelectSeq(Take(MatchesNewestFirst(EventsOf(store, last.user), last.arg.v), 8), IsAdherence)) > 0

\* C6: search_memory returns exactly the newest max_results events that hold one of the
\* first 10 lowercase word tokens of length > 2 of the query, newest first, and nothing
\* for a query without such a token
SearchReturnsNewestMatches ==
    last.op = "search_memory" =>
        last.ret = PyList(Take(MatchesNewestFirst(EventsOf(store, last.user), last.arg.query),
                               last.arg.max_results))

\* C7: call_gemini returns a string, whatever the credential, the transport, the status
\* and the body
GatewayReturnsString == last.op = "call_gemini" => IsStr(last.ret)

\* C8: without a credential call_gemini issues no request and returns a string that
\* starts with the simulated-response prefix and holds the first 200 characters of the
\* prompt, and no more of it
NoCredentialEchoesPrompt ==
    (last.op = "call_gemini" /\ ~apiKey) =>
        /\ last.requests = 0
        /\ IsStr(last.ret)
        /\ StartsWith(last.ret.v, <<"S","I","M","U","L","A","T","E","D"," ","M","O","D","E","L"," ","R","E","S","P","O","N","S","E",":">>)
        /\ Contains(last.ret.v, Take(last.arg.v, 200))
        /\ Len(last.arg.v) > 200 => ~Contains(last.ret.v, Take(last.arg.v, 201))

\* a simulated reply to a prompt of more than 200 characters
LongPromptEchoed == last.op = "call_gemini" /\ ~apiKey /\ Len(last.arg.v) > 200

\* C9: with a credential call_gemini issues exactly one request, and returns the
\* request-error sentinel when that request fails in transport
OneRequestPerCall ==
    (last.op = "call_gemini" /\ apiKey) =>
        /\ last.requests = 1
        /\ Responses[last.net].fails => last.ret = PyStr(<<"S","I","M","U","L","A","T","E","D"," ","M","O","D","E","L"," ","R","E","S","P","O","N","S","E"," ","(","r","e","q","u","e","s","t"," ","e","r","r","o","r",")",".">>)

\* a call with a credential whose request failed in transport
TransportFailureMet == last.op = "call_gemini" /\ apiKey /\ Responses[last.net].fails

\* C10: for a request that got a response, call_gemini returns the API-error sentinel
\* exactly when the status is not 200 or the body does not parse
ApiErrorOnlyForStatusOrParse ==
    (last.op = "call_gemini" /\ apiKey /\ ~Responses[last.net].fails) =>
        ((last.ret = PyStr(<<"S","I","M","U","L","A","T","E","D"," ","M","O","D","E","L"," ","R","E","S","P","O","N","S","E"," ","(","A","P","I"," ","e","r","r","o","r",")","."," ","S","e","e"," ","l","o","g","s",".">>))
            <=> (Responses[last.net].status # 200 \/ ~Responses[last.net].parses))

\* x is the str text
IsText(x, text) == IsStr(x) /\ x.v = text

\* the response of the last call was taken as a success: status 200 and a parsed,
\* non-empty JSON object
SuccessfulResponse(net) == ~net.fails /\ net.status = 200 /\ net.parses /\ Truthy(net.body) /\ IsDict(net.body)

\* x[key] for an object x that has the field, None otherwise
Field(x, key) == IF IsDict(x) THEN Get(x, key) ELSE PyNone

\* the first element of a non-empty list, None otherwise
FirstOf(x) == IF x.t = "list" /\ Len(x.v) > 0 THEN x.v[1] ELSE PyNone

\* (a) the text of the first content part of the first candidate
StrategyA(d) == Field(FirstOf(Field(Field(FirstOf(Field(d, <<"c","a","n","d","i","d","a","t","e","s">>)), <<"c","o","n","t","e","n","t">>), <<"p","a","r","t","s">>)), <<"t","e","x","t">>)

\* (b) the output string of the candidate
StrategyB(d) == Field(FirstOf(Field(d, <<"c","a","n","d","i","d","a","t","e","s">>)), <<"o","u","t","p","u","t">>)

\* (c) the top-level output_text string
StrategyC(d) == Field(d, <<"o","u","t","p","u","t","_","t","e","x","t">>)

\* the str text fragments of one message, in order
FragmentsOf(content) ==
    IF content.t # "list" THEN <<>>
    ELSE SelectSeq(([i \in 1..Len(content.v) |-> Field(content.v[i], <<"t","e","x","t">>)] \o <<>>), IsStr)

RECURSIVE FragmentsFrom(_, _)
\* the str text fragments of the messages ms[i..], in order
FragmentsFrom(ms, i) ==
    IF i > Len(ms) THEN <<>> ELSE FragmentsOf(Field(ms[i], <<"c","o","n","t","e","n","t">>)) \o FragmentsFrom(ms, i + 1)

Fragments(messages) == IF messages.t # "list" THEN <<>> ELSE FragmentsFrom(messages.v, 1)

\* (d) the text fragments of the messages, one per line
StrategyD(d) ==
    IF Len(Fragments(Field(d, <<"m","e","s","s","a","g","e","s">>))) = 0 THEN PyNone
    ELSE PyStr(Join(([i \in 1..Len(Fragments(Field(d, <<"m","e","s","s","a","g","e","s">>))) |-> Fragments(Field(d, <<"m","e","s","s","a","g","e","s">>))[i].v] \o <<>>), <<"\n">>))

\* what the strategies yield, in the order they are tried
Strategies(d) == <<StrategyA(d), StrategyB(d), StrategyC(d), StrategyD(d)>>

NonEmptyStr(x) == IsStr(x) /\ Len(x.v) > 0

\* the yields that are non-empty strings, in the order of their strategies
Winners(d) == SelectSeq(Strategies(d), NonEmptyStr)

\* C11: on a successful response the first extraction strategy, in the order (a), (b),
\* (c), (d), that yields a non-empty string gives the text call_gemini returns (followed
\* by the truncation note only when MAX_TOKENS is declared), an empty or missing yield of
\* an earlier strategy does not stop the later ones, and the unparseable sentinel is
\* returned only when no strategy yields a non-empty string
FirstNonEmptyStrategyWins ==
    (last.op = "call_gemini" /\ apiKey /\ SuccessfulResponse(Responses[last.net])) =>
        /\ Len(Winners(Responses[last.net].body)) > 0 =>
              /\ IsStr(last.ret)
              /\ IsPrefix(Winners(Responses[last.net].body)[1].v, last.ret.v)
              /\ ~DeclaresMaxTokens(Responses[last.net].body)
                    => last.ret.v = Winners(Responses[last.net].body)[1].v
        /\ IsText(last.ret, <<"S","I","M","U","L","A","T","E","D"," ","M","O","D","E","L"," ","R","E","S","P","O","N","S","E"," ","(","u","n","p","a","r","s","e","a","b","l","e",")","."," ","S","e","e"," ","l","o","g","s",".">>)
              => Len(Winners(Responses[last.net].body)) = 0

\* the first candidate of the body declares the finish reason MAX_TOKENS
FirstCandidateTruncated(d) == IsText(Field(FirstOf(Field(d, <<"c","a","n","d","i","d","a","t","e","s">>)), <<"f","i","n","i","s","h","R","e","a","s","o","n">>), <<"M","A","X","_","T","O","K","E","N","S">>)

\* lines 136-156 for the value out that extract_text returned
TruncationHandledFor(truncated, out, ret) ==
    /\ truncated =>
          /\ NonEmptyStr(out) => IsText(ret, out.v \o TruncationNote)
          /\ ~NonEmptyStr(out) => IsText(ret, <<"M","O","D","E","L","_","T","R","U","N","C","A","T","E","D",":"," ","I","n","c","r","e","a","s","e"," ","m","a","x","_","o","u","t","p","u","t","_","t","o","k","e","n","s","."," ","P","a","r","t","i","a","l"," ","c","a","n","d","i","d","a","t","e"," ","l","o","g","g","e","d",".">>)
          /\ ~IsText(ret, <<"S","I","M","U","L","A","T","E","D"," ","M","O","D","E","L"," ","R","E","S","P","O","N","S","E"," ","(","u","n","p","a","r","s","e","a","b","l","e",")","."," ","S","e","e"," ","l","o","g","s",".">>)
    /\ ~truncated =>
          /\ ~IsText(ret, <<"M","O","D","E","L","_","T","R","U","N","C","A","T","E","D",":"," ","I","n","c","r","e","a","s","e"," ","m","a","x","_","o","u","t","p","u","t","_","t","o","k","e","n","s","."," ","P","a","r","t","i","a","l"," ","c","a","n","d","i","d","a","t","e"," ","l","o","g","g","e","d",".">>)
          /\ IsStr(ret) => ~Contains(ret.v, TruncationNote)

\* C12: on a successful response whose first candidate declares MAX_TOKENS, call_gemini
\* returns the extracted text followed by the truncation note when text was extracted,
\* and exactly the MODEL_TRUNCATED sentinel, never the unparseable one, when none was;
\* without the declaration it returns neither the note nor the MODEL_TRUNCATED sentinel
TruncationHandled ==
    (last.op = "call_gemini" /\ apiKey /\ SuccessfulResponse(Responses[last.net])) =>
        TruncationHandledFor(FirstCandidateTruncated(Responses[last.net].body),
                             extract_text(Responses[last.net].body), last.ret)

\* the event the last call appended for its user
LastStored == store[last.user][Len(store[last.user])]

\* the keywords handle_uploaded_document extracted, as it stored them
StoredKeywords == ([i \in 1..Len(Get(LastStored, <<"k","e","y","w","o","r","d","s">>).v) |-> Get(LastStored, <<"k","e","y","w","o","r","d","s">>).v[i].v] \o <<>>)

\* the last call was an upload on which the rule-based pass found no specialty
UploadAskedModel == last.op = "handle_uploaded_document" /\ RuleSpecialties(StoredKeywords) = {}

\* the text of what the Gateway replied to the upload's prompt
UploadReplyText == Str(Or(call_gemini(apiKey, SpecialtyPrompt(StoredKeywords), Responses[last.net]).ret, PyStr(<<>>)))

\* the text is one of the replies the Gateway gives in place of content: the simulated
\* echo without a credential, the request-error, API-error and unparseable sentinels,
\* and the MODEL_TRUNCATED sentinel
IsNonContentSentinel(text) ==
    \/ StartsWith(text, <<"S","I","M","U","L","A","T","E","D"," ","M","O","D","E","L"," ","R","E","S","P","O","N","S","E",":"," ">>)
    \/ text = <<"S","I","M","U","L","A","T","E","D"," ","M","O","D","E","L"," ","R","E","S","P","O","N","S","E"," ","(","r","e","q","u","e","s","t"," ","e","r","r","o","r",")",".">>
    \/ text = <<"S","I","M","U","L","A","T","E","D"," ","M","O","D","E","L"," ","R","E","S","P","O","N","S","E"," ","(","A","P","I"," ","e","r","r","o","r",")","."," ","S","e","e"," ","l","o","g","s",".">>
    \/ text = <<"S","I","M","U","L","A","T","E","D"," ","M","O","D","E","L"," ","R","E","S","P","O","N","S","E"," ","(","u","n","p","a","r","s","e","a","b","l","e",")","."," ","S","e","e"," ","l","o","g","s",".">>
    \/ text = <<"M","O","D","E","L","_","T","R","U","N","C","A","T","E","D",":"," ","I","n","c","r","e","a","s","e"," ","m","a","x","_","o","u","t","p","u","t","_","t","o","k","e","n","s","."," ","P","a","r","t","i","a","l"," ","c","a","n","d","i","d","a","t","e"," ","l","o","g","g","e","d",".">>

\* the text holds one of the sentinel markers, in any case
HoldsSentinelMarker(text) ==
    \E sig \in {<<"M","O","D","E","L","_","T","R","U","N","C","A","T","E","D">>, <<"S","I","M","U","L","A","T","E","D"," ","M","O","D","E","L"," ","R","E","S","P","O","N","S","E">>, <<"A","P","I"," ","E","R","R","O","R">>, <<"U","N","P","A","R","S","E","A","B","L","E">>} :
        Contains(Upper(text), sig)

\* the suggested list is exactly the default pair when fallback holds, and otherwise the
\* first 6 fragments of the text that are longer than 2 characters
SuggestedFrom(suggested, text, fallback) ==
    /\ Len(suggested) <= 6
    /\ IF fallback
       THEN {suggested[i].v : i \in 1..Len(suggested)} = {<<"P","r","i","m","a","r","y"," ","C","a","r","e">>, <<"I","n","t","e","r","n","a","l"," ","M","e","d","i","c","i","n","e">>}
       ELSE {suggested[i].v : i \in 1..Len(suggested)} = Range(Take(ReplyParts(text), 6))

\* C13 as stated: when the rule-based pass yields nothing, the suggested set is exactly
\* {"Primary Care", "Internal Medicine"} if the Gateway's reply is blank or one of its
\* non-content sentinels, and otherwise at most the first 6 comma/semicolon/newline
\* separated fragments longer than 2 characters
DefaultsOnlyForSentinelReplies ==
    UploadAskedModel =>
        SuggestedFrom(last.ret.v, UploadReplyText,
                      Len(Strip(UploadReplyText)) = 0 \/ IsNonContentSentinel(UploadReplyText))

\* C13 as amended: when the rule-based pass yields nothing, the suggested set is exactly
\* {"Primary Care", "Internal Medicine"} if the Gateway's reply is blank or holds one of
\* the sentinel markers in any case, which every non-content sentinel of the Gateway
\* does, and otherwise at most the first 6 fragments longer than 2 characters; an empty
\* document returns within the cap
DefaultsForMarkedReplies ==
    /\ UploadAskedModel =>
          /\ SuggestedFrom(last.ret.v, UploadReplyText,
                           Len(Strip(UploadReplyText)) = 0 \/ HoldsSentinelMarker(UploadReplyText))
          /\ IsNonContentSentinel(UploadReplyText) => HoldsSentinelMarker(UploadReplyText)
    /\ (last.op = "handle_uploaded_document" /\ last.arg.v = <<>>) => UploadAskedModel

\* an upload whose reply holds more than 6 fragments and no marker
ReplyPastTheCap ==
    /\ UploadAskedModel
    /\ ~HoldsSentinelMarker(UploadReplyText)
    /\ Len(ReplyParts(UploadReplyText)) > 6

\* the positions of the medications taken at the time t
TakenAt(meds, t) == {i \in 1..Len(meds) : TimeOf(meds[i]).v = t}

\* the positions of the timing_conflict flags for the time t
ConflictsAt(flags, t) ==
    {i \in 1..Len(flags) : IsText(Get(flags[i], <<"t","y","p","e">>), <<"t","i","m","i","n","g","_","c","o","n","f","l","i","c","t">>) /\ IsText(Get(flags[i], <<"t","i","m","e">>), t)}

\* the names are those of the medications at the positions, each as often as it is taken
NamesAll(names, meds, at) ==
    /\ Len(names) = Cardinality(at)
    /\ \A i \in at : Cardinality({j \in 1..Len(names) : names[j] = Get(meds[i], <<"n","a","m","e">>)})
                        = Cardinality({j \in at : Get(meds[j], <<"n","a","m","e">>) = Get(meds[i], <<"n","a","m","e">>)})

\* C14: medcheck emits exactly one timing_conflict flag for every time shared by more
\* than one medication of the list (a medication without a time counts as taken at
\* 00:00), the flag names all medications of that time, and no timing_conflict flag is
\* emitted for a time only one medication has; so two entries with the same time give
\* exactly one timing_conflict flag, which lists both names
OneTimingConflictPerSharedTime ==
    last.op = "medcheck" =>
        /\ \A i \in 1..Len(last.arg.v) :
              IF Cardinality(TakenAt(last.arg.v, TimeOf(last.arg.v[i]).v)) > 1
              THEN /\ Cardinality(ConflictsAt(last.ret.v, TimeOf(last.arg.v[i]).v)) = 1
                   /\ \A f \in ConflictsAt(last.ret.v, TimeOf(last.arg.v[i]).v) :
                         NamesAll(Get(last.ret.v[f], <<"m","e","d","s">>).v, last.arg.v,
                                  TakenAt(last.arg.v, TimeOf(last.arg.v[i]).v))
              ELSE ConflictsAt(last.ret.v, TimeOf(last.arg.v[i]).v) = {}
        /\ \A f \in 1..Len(last.ret.v) :
              IsText(Get(last.ret.v[f], <<"t","y","p","e">>), <<"t","i","m","i","n","g","_","c","o","n","f","l","i","c","t">>)
                  => \E i \in 1..Len(last.arg.v) : IsText(Get(last.ret.v[f], <<"t","i","m","e">>), TimeOf(last.arg.v[i]).v)
        /\ (Len(last.arg.v) = 2 /\ Cardinality(TakenAt(last.arg.v, TimeOf(last.arg.v[1]).v)) = 2) =>
              Cardinality({f \in 1..Len(last.ret.v) : IsText(Get(last.ret.v[f], <<"t","y","p","e">>), <<"t","i","m","i","n","g","_","c","o","n","f","l","i","c","t">>)}) = 1

\* a list of four medications taken two by two at the same time: two timing_conflict flags
TwoSharedTimes ==
    /\ last.op = "medcheck"
    /\ Len(last.arg.v) = 4
    /\ Cardinality({f \in 1..Len(last.ret.v) : IsText(Get(last.ret.v[f], <<"t","y","p","e">>), <<"t","i","m","i","n","g","_","c","o","n","f","l","i","c","t">>)}) = 2

\* C15: respond_with_memory_first only reads the Event Store: whatever the user, the
\* query and the Gateway outcome, the in-memory store and the persisted file are after
\* the call what they were before it
RespondOnlyReads ==
    [][last'.op = "respond_with_memory_first" => (store' = store /\ file' = file)]_vars

\* a reply summarized from the stored events of the user, with the store and the file
\* still holding them
AnsweredFromKeptMemory ==
    /\ last.op = "respond_with_memory_first"
    /\ Len(EventsOf(store, last.user)) > 0
    /\ IsStr(last.ret)
    /\ Contains(last.ret.v, <<"I"," ","f","o","u","n","d"," ","t","h","e","s","e"," ","s","a","v","e","d"," ","n","o","t","e","s">>)
    /\ EventsOf(_load(file), last.user) = EventsOf(store, last.user)

\* C16: each of two MemoryBanks on one file appends to the copy it loaded at
\* construction and rewrites the whole file from that copy, without reading what the
\* other one wrote: after an append the file holds the copy of the writer, and the copy
\* of the other writer is what it was
WriterOverwritesWholeFile ==
    [][/\ last'.op = "append_user_event" => (_load(file') = store' /\ other' = other)
       /\ last'.op = "other.append_user_event" => (_load(file') = other' /\ store' = store)]_vars

\* both writers have appended, and an event the first one appended is absent from the
\* persisted file
AppendLostFromFile ==
    /\ last.op = "other.append_user_event"
    /\ \E u \in DOMAIN store : \E i \in 1..Len(store[u]) :
          /\ \A j \in 1..Len(EventsOf(other, u)) : other[u][j] # store[u][i]
          /\ \A j \in 1..Len(EventsOf(_load(file), u)) : _load(file)[u][j] # store[u][i]

\* the lowercased word tokens of the text that are longer than 2 characters and all ASCII
AsciiTokens(text) ==
    {Lower(t) : t \in {w \in Range(FindAllWords(text)) : Len(w) > 2 /\ \A i \in 1..Len(w) : w[i] # "U+00E9"}}

\* the prompts of the cli_chat events stored before the last one
EarlierPrompts(evs) ==
    {Get(evs[i], <<"p","r","o","m","p","t">>).v : i \in {j \in 1..(Len(evs) - 1) : IsText(Get(evs[j], <<"t","y","p","e">>), <<"c","l","i","_","c","h","a","t">>)}}

\* the last turn stored a cli_chat event that holds the prompt
TurnStored(evs, q) ==
    /\ Len(evs) > 0
    /\ IsText(Get(evs[Len(evs)], <<"t","y","p","e">>), <<"c","l","i","_","c","h","a","t">>)
    /\ IsText(Get(evs[Len(evs)], <<"p","r","o","m","p","t">>), q)

\* the reply is the saved-notes template and no request was issued
FromMemory(ret, requests) ==
    /\ IsStr(ret)
    /\ StartsWith(ret.v, <<"I"," ","f","o","u","n","d"," ","t","h","e","s","e"," ","s","a","v","e","d"," ","n","o","t","e","s"," ","r","e","l","a","t","e","d"," ","t","o"," ","y","o","u","r"," ","q","u","e","s","t","i","o","n",":">>)
    /\ Contains(ret.v, <<"I","f"," ","y","o","u"," ","w","a","n","t"," ","m","o","r","e"," ","d","e","t","a","i","l","s"," ","I"," ","c","a","n"," ","e","x","p","a","n","d"," ","o","r"," ","a","s","k"," ","t","h","e"," ","m","o","d","e","l"," ","t","o"," ","i","n","t","e","r","p","r","e","t"," ","t","h","e","s","e",".">>)
    /\ requests = 0

\* C17 as stated: every free-text query handled by the CLI loop is stored as a cli_chat
\* event holding the prompt, and a query that shares an ASCII word token longer than 2
\* characters with an earlier handled query is answered from memory with the saved-notes
\* template, without a request to the Gateway
SharedTokenAnsweredFromMemory ==
    last.op = "cli_chat" =>
        /\ TurnStored(EventsOf(store, UID), last.arg.v)
        /\ (\E p \in EarlierPrompts(EventsOf(store, UID)) : AsciiTokens(p) \cap AsciiTokens(last.arg.v) # {})
              => FromMemory(last.ret, last.requests)

\* C17 as amended: every free-text query handled by the CLI loop is stored as a cli_chat
\* event holding the prompt, and a query that has, among its first 10 word tokens longer
\* than 2 characters, an ASCII token of an earlier handled query is answered from memory
\* with the saved-notes template, without a request to the Gateway
SharedEarlyTokenAnsweredFromMemory ==
    last.op = "cli_chat" =>
        /\ TurnStored(EventsOf(store, UID), last.arg.v)
        /\ (\E p \in EarlierPrompts(EventsOf(store, UID)) :
                AsciiTokens(p) \cap Range(Take(LowerAll(SelectSeq(FindAllWords(last.arg.v), LAMBDA t : Len(t) > 2)), 10)) # {})
              => FromMemory(last.ret, last.requests)

\* with a credential, a query is repeated after it was handled and stored
RepeatedQueryWithCredential ==
    /\ last.op = "cli_chat"
    /\ apiKey
    /\ last.arg.v \in EarlierPrompts(EventsOf(store, UID))
    /\ AsciiTokens(last.arg.v) # {}

=============================================================================
